---- MODULE Spec2Model ----
(***************************************************************************)
(* A model of the Vim emulation layer: operators (src/unnamed/part_000,    *)
(* the operator module), motions and text objects (src/src/actions/        *)
(* motion.ts) and the key dispatch that composes them.                     *)
(*                                                                         *)
(* Text is a sequence of lines, a line a sequence of one-character         *)
(* strings.  Positions are zero-based (line, character) records as in the  *)
(* source; TLA+ sequences are one-based, so line l is document[l + 1].     *)
(***************************************************************************)
EXTENDS Integers, Sequences, FiniteSets, TLC

VARIABLES
    vimState,    \* the VimState aggregate: editor document, mode, cursor, register,
                 \* register mode, recordedState, marks, surround
    ev,          \* history: what the last step did (operator run, range, state before)
    keysHandled  \* number of key events handled so far

vars == <<vimState, ev, keysHandled>>

----------------------------------------------------------------------------
(* Bounds of the model *)

MaxKeys == 3

MaxCount == 3

\* The largest number of cursors in a cursor set.
MaxCursors == 3

----------------------------------------------------------------------------
(* Small arithmetic and sequence helpers *)

Min(a, b) == IF a < b THEN a ELSE b

Max(a, b) == IF a > b THEN a ELSE b

Abs(a) == IF a < 0 THEN 0 - a ELSE a

Last(s) == s[Len(s)]

NL == "\n"

Blank(ch) == ch = " " \/ ch = "\t"

----------------------------------------------------------------------------
(* Position: immutable (line, character) values and their order *)

Pos(l, c) == [line |-> l, character |-> c]

isBefore(p, q) ==
    p.line < q.line \/ (p.line = q.line /\ p.character < q.character)

isAfter(p, q) == isBefore(q, p)

isBeforeOrEqual(p, q) == ~ isBefore(q, p)

EarlierOf(p, q) == IF isBefore(p, q) THEN p ELSE q

LaterOf(p, q) == IF isBefore(p, q) THEN q ELSE p

----------------------------------------------------------------------------
(* The text buffer interface: lines, offsets, getText, range deletion.     *)
(* The host validates every position of a range against the document.     *)

getLineCount(d) == Len(d)

getLineLength(d, l) == Len(d[l + 1])

validatePosition(d, p) ==
    IF p.line >= Len(d) THEN Pos(Len(d) - 1, Len(d[Len(d)]))
    ELSE IF p.line < 0 THEN Pos(0, 0)
    ELSE Pos(p.line, Max(0, Min(p.character, Len(d[p.line + 1]))))

RECURSIVE JoinLines(_)
JoinLines(d) ==
    IF Len(d) = 0 THEN <<>>
    ELSE IF Len(d) = 1 THEN d[1]
    ELSE d[1] \o <<NL>> \o JoinLines(Tail(d))

RECURSIVE SplitLines(_)
SplitLines(s) ==
    IF \A i \in 1..Len(s) : s[i] # NL THEN <<s>>
    ELSE LET i == CHOOSE k \in 1..Len(s) :
                    s[k] = NL /\ \A j \in 1..(k - 1) : s[j] # NL
         IN  <<SubSeq(s, 1, i - 1)>> \o SplitLines(SubSeq(s, i + 1, Len(s)))

RECURSIVE offsetOfLine(_, _)
offsetOfLine(d, l) ==
    IF l = 0 THEN 0 ELSE offsetOfLine(d, l - 1) + Len(d[l]) + 1

getOffsetAt(d, p) ==
    LET q == validatePosition(d, p) IN offsetOfLine(d, q.line) + q.character

getText(d, a, b) ==
    LET lo == Min(getOffsetAt(d, a), getOffsetAt(d, b))
        hi == Max(getOffsetAt(d, a), getOffsetAt(d, b))
    IN  SubSeq(JoinLines(d), lo + 1, hi)

deleteText(d, a, b) ==
    LET lo == Min(getOffsetAt(d, a), getOffsetAt(d, b))
        hi == Max(getOffsetAt(d, a), getOffsetAt(d, b))
        flat == JoinLines(d)
    IN  SplitLines(SubSeq(flat, 1, lo) \o SubSeq(flat, hi + 1, Len(flat)))

----------------------------------------------------------------------------
(* Position arithmetic against a document d (common/motion/position)       *)

getLineBegin(p) == Pos(p.line, 0)

getLineEnd(d, p) == Pos(p.line, getLineLength(d, p.line))

isLineEnd(d, p) == p.character >= getLineLength(d, p.line)

getLeft(p) == IF p.character > 0 THEN Pos(p.line, p.character - 1) ELSE p

getRight(d, p) == IF isLineEnd(d, p) THEN p ELSE Pos(p.line, p.character + 1)

getDown(d, p, desiredColumn) ==
    IF p.line # getLineCount(d) - 1
    THEN Pos(p.line + 1, Min(getLineLength(d, p.line + 1), desiredColumn))
    ELSE p

getUp(d, p, desiredColumn) ==
    IF p.line # 0
    THEN Pos(p.line - 1, Min(getLineLength(d, p.line - 1), desiredColumn))
    ELSE p

getDownByCount(d, p, count) ==
    Pos(Min(getLineCount(d) - 1, p.line + count), p.character)

getUpByCount(p, count) == Pos(Max(0, p.line - count), p.character)

getPreviousLineBegin(p) ==
    IF p.line = 0 THEN getLineBegin(p) ELSE Pos(p.line - 1, 0)

getLeftThroughLineBreaks(d, p, includeEol) ==
    IF p.character > 0 THEN getLeft(p)
    ELSE IF p.line = 0 THEN p
    ELSE IF includeEol THEN getLineEnd(d, Pos(p.line - 1, 0))
    ELSE getLeft(getLineEnd(d, Pos(p.line - 1, 0)))

getRightThroughLineBreaks(d, p, includeEol) ==
    IF p.line = getLineCount(d) - 1 /\ isLineEnd(d, p) THEN p
    ELSE IF isLineEnd(d, p) THEN getDown(d, p, 0)
    ELSE IF ~ includeEol /\ isLineEnd(d, getRight(d, p)) THEN getDown(d, p, 0)
    ELSE getRight(d, p)

getFirstLineNonBlankChar(d, p) ==
    LET text == d[p.line + 1]
        nonBlank == {i \in 1..Len(text) : ~ Blank(text[i])}
    IN  IF nonBlank = {} THEN Pos(p.line, Len(text))
        ELSE Pos(p.line, (CHOOSE i \in nonBlank : \A j \in nonBlank : i <= j) - 1)

getCharAt(d, p) ==
    LET q == validatePosition(d, p)
    IN  IF q.character < getLineLength(d, q.line)
        THEN d[q.line + 1][q.character + 1] ELSE NL

\* Every position of the document, the position past each line's end included.
allPositions(d) ==
    UNION {{Pos(l, c) : c \in 0..getLineLength(d, l)} : l \in 0..(Len(d) - 1)}

----------------------------------------------------------------------------
(* Modes, register modes, the register store                               *)

Normal == "Normal"
Insert == "Insert"
Visual == "Visual"
VisualLine == "VisualLine"
VisualBlock == "VisualBlock"
SurroundInputMode == "SurroundInputMode"

AscertainFromCurrentMode == "AscertainFromCurrentMode"
CharacterWise == "CharacterWise"
LineWise == "LineWise"
BlockWise == "BlockWise"

isVisualMode(m) == m \in {Visual, VisualLine, VisualBlock}

effectiveRegisterMode(vs) ==
    IF vs.currentRegisterMode # AscertainFromCurrentMode THEN vs.currentRegisterMode
    ELSE IF vs.currentMode = VisualLine THEN LineWise
    ELSE IF vs.currentMode = VisualBlock THEN BlockWise
    ELSE CharacterWise

\* Register.put: the text goes to the active register with the register mode
\* in force at that moment.
RegisterPut(vs, text) ==
    [vs EXCEPT !.register = [text |-> text, registerMode |-> effectiveRegisterMode(vs)],
               !.registerWrites = @ + 1]

setCurrentMode(vs, m) == [vs EXCEPT !.currentMode = m]

\* multicursorIndex of an operator constructed without one: undefined.
NoCursorIndex == 0 - 1

pushTransformation(vs, t) ==
    [vs EXCEPT !.recordedState.transformations = Append(@, t)]

NoPosition == Pos(0 - 1, 0 - 1)

DiffNone == "none"
DiffLeft == "left"
DiffBOL == "BOL"

----------------------------------------------------------------------------
(* Operators (src/unnamed/part_000).  An operator run is a function from   *)
(* the VimState and a range to the VimState; buffer edits are queued as    *)
(* transformations and applied when the key has been processed.            *)

stripFinalNewline(text) ==
    IF Len(text) > 0 /\ Last(text) = NL THEN SubSeq(text, 1, Len(text) - 1) ELSE text

\* Faulty variant: the line break is never selected.
DeleteOperator_selectNewline_Never(vs, d, end) == end

\* A column one past the end of the line selects the line break: the end
\* moves to the start of the following line, except in VisualBlock.
DeleteOperator_selectNewline(vs, d, end) ==
    IF /\ vs.currentMode # VisualBlock
       /\ end.character = getLineLength(d, end.line) + 1
    THEN getDown(d, end, 0) ELSE end

\* Faulty variant: the start is never moved back over the preceding break.
DeleteOperator_lastLineStart_Kept(d, start, isOnLastLine, registerMode) == start

\* A line-wise delete down to the final line removes the line break of the
\* line before the range instead of the (absent) one after it.
DeleteOperator_lastLineStart(d, start, isOnLastLine, registerMode) ==
    IF isOnLastLine /\ start.line # 0 /\ registerMode = LineWise
    THEN getLineEnd(d, getPreviousLineBegin(start)) ELSE start

\* DeleteOperator.delete: deletes from start to one past end.
DeleteOperator_delete(vs, start0, end0, currentMode, registerMode, yank) ==
    LET d == vs.document
        start1 == IF registerMode = LineWise THEN getLineBegin(start0) ELSE start0
        end1 == IF registerMode = LineWise THEN getLineEnd(d, end0) ELSE end0
        end2 == Pos(end1.line, end1.character + 1)
        isOnLastLine == end2.line = getLineCount(d) - 1
        end3 == DeleteOperator_selectNewline(vs, d, end2)
        text0 == getText(d, start1, end3)
        start2 == DeleteOperator_lastLineStart(d, start1, isOnLastLine, registerMode)
        text == IF registerMode = LineWise THEN stripFinalNewline(text0) ELSE text0
        vs1 == IF yank THEN RegisterPut(vs, text) ELSE vs
        pastEnd == start2.character > getLineLength(d, start2.line)
        resultingPosition0 == IF pastEnd THEN getLeft(start2) ELSE start2
        diff0 == IF pastEnd THEN DiffLeft ELSE DiffNone
        resultingPosition == IF registerMode = LineWise
                             THEN getLineBegin(resultingPosition0) ELSE resultingPosition0
        diff == IF registerMode = LineWise THEN DiffBOL ELSE diff0
    IN  [vimState |-> pushTransformation(vs1,
                        [type |-> "deleteRange", start |-> start2, end |-> end3,
                         diff |-> diff, text |-> <<>>,
                         cursorIndex |-> NoCursorIndex]),
         position |-> resultingPosition]

\* Faulty variant: the mode is left as it was.
DeleteOperator_run_KeepsMode(vs, start, end, yank) ==
    DeleteOperator_delete(vs, start, end, vs.currentMode,
                          effectiveRegisterMode(vs), yank).vimState

DeleteOperator_run(vs, start, end, yank) ==
    setCurrentMode(
        DeleteOperator_delete(vs, start, end, vs.currentMode,
                              effectiveRegisterMode(vs), yank).vimState,
        Normal)

\* The classes that extend TextObjectMovement (textobject module): of the
\* modelled motions, the inner word.
TextObjectMovements == {"SelectInnerWord"}

YankOperator_run(vs, start0, end0) ==
    IF vs.surround
    THEN [vs EXCEPT !.currentMode = SurroundInputMode,
                    !.cursorStopPosition = start0,
                    !.cursorStartPosition = start0]
    ELSE
    LET d == vs.document
        originalMode == vs.currentMode
        swap == isBefore(end0, start0)
        start1 == IF swap THEN end0 ELSE start0
        end1 == IF swap THEN start0 ELSE end0
        extendedEnd0 == Pos(end1.line, end1.character + 1)
        lineWise == vs.currentRegisterMode = LineWise
        start == IF lineWise THEN getLineBegin(start1) ELSE start1
        extendedEnd == IF lineWise THEN getLineEnd(d, extendedEnd0) ELSE extendedEnd0
        text0 == getText(d, start, extendedEnd)
        text == IF /\ vs.currentMode = Visual
                   /\ extendedEnd.character = getLineLength(d, extendedEnd.line) + 1
                THEN text0 \o <<NL>> ELSE text0
        vs1 == RegisterPut(vs, text)
        vs2 == [setCurrentMode(vs1, Normal) EXCEPT !.cursorStartPosition = start]
        actionsRun == vs.recordedState.actionsRun
        moveCursor == Len(actionsRun) > 1 /\ actionsRun[2].name \in TextObjectMovements
    IN  IF originalMode = Normal /\ ~ moveCursor
        THEN [vs2 EXCEPT !.cursorStartPosition = vs.cursorsInitialState.start,
                         !.cursorStopPosition = vs.cursorsInitialState.stop]
        ELSE [vs2 EXCEPT !.cursorStopPosition = start]

ChangeOperator_run_DeleteYanks(vs, start, end) == [DeleteOperator_run([YankOperator_run(vs, start, end) EXCEPT !.currentRegisterMode = CharacterWise], start, IF end.character = getLineEnd(vs.document, end).character THEN getLeftThroughLineBreaks(vs.document, end, TRUE) ELSE end, TRUE) EXCEPT !.currentRegisterMode = AscertainFromCurrentMode, !.currentMode = Insert]

ChangeOperator_run(vs, start, end) ==
    LET d == vs.document
        isEndOfLine == end.character = getLineEnd(d, end).character
        deleteEnd == IF isEndOfLine THEN getLeftThroughLineBreaks(d, end, TRUE) ELSE end
        deleted(yanked) ==
            IF getLineLength(d, start.line) # 0 \/ end.line # start.line
            THEN DeleteOperator_run(yanked, start, deleteEnd, FALSE)
            ELSE yanked
    IN  [deleted([YankOperator_run(vs, start, end) EXCEPT
                      !.currentRegisterMode = CharacterWise])
            EXCEPT !.currentRegisterMode = AscertainFromCurrentMode,
                   !.currentMode = Insert,
                   !.cursorStopPosition = IF isEndOfLine THEN getRight(d, end) ELSE @]

\* new ChangeOperator().run: the delegate is constructed without the index.
ChangeOperatorSVisual_run(vs, start, end) ==
    LET ran == ChangeOperator_run(
                   [vs EXCEPT !.recordedState.multicursorIndex = NoCursorIndex],
                   start, end)
    IN  [ran EXCEPT !.recordedState.multicursorIndex =
                        vs.recordedState.multicursorIndex]

\* editor.action.indentLines of the host on the selected lines.
IndentUnit == <<"\t">>

indentLines(d, first, last) ==
    [i \in 1..Len(d) |->
        IF first + 1 <= i /\ i <= last + 1 /\ Len(d[i]) > 0
        THEN IndentUnit \o d[i] ELSE d[i]]

IndentOperator_run(vs, start, end) ==
    LET d2 == indentLines(vs.document, start.line, end.line)
    IN  [vs EXCEPT !.document = d2,
                   !.currentMode = Normal,
                   !.cursorStopPosition = getFirstLineNonBlankChar(d2, start)]

\* The tab stop of the editor; indentation is by tabs.
TabStop == 4

RECURSIVE dropSpaces(_, _)
dropSpaces(line, n) ==
    IF n > 0 /\ Len(line) > 0 /\ Head(line) = " " THEN dropSpaces(Tail(line), n - 1)
    ELSE line

\* editor.action.outdentLines of the host on the selected lines.
outdentLines(d, first, last) ==
    [i \in 1..Len(d) |->
        IF first + 1 <= i /\ i <= last + 1
        THEN IF Len(d[i]) > 0 /\ Head(d[i]) = "\t" THEN Tail(d[i])
             ELSE dropSpaces(d[i], TabStop)
        ELSE d[i]]

OutdentOperator_run(vs, start, end) ==
    LET d2 == outdentLines(vs.document, start.line, end.line)
    IN  [vs EXCEPT !.document = d2,
                   !.currentMode = Normal,
                   !.cursorStopPosition = getFirstLineNonBlankChar(d2, start)]

OperatorRun(name, vs, start, end) ==
    CASE name = "DeleteOperator" -> DeleteOperator_run(vs, start, end, TRUE)
      [] name = "YankOperator" -> YankOperator_run(vs, start, end)
      [] name = "ChangeOperator" -> ChangeOperator_run(vs, start, end)
      [] name = "ChangeOperatorSVisual" -> ChangeOperatorSVisual_run(vs, start, end)
      [] name = "IndentOperator" -> IndentOperator_run(vs, start, end)
      [] name = "OutdentOperator" -> OutdentOperator_run(vs, start, end)

\* Faulty variant: count further lines are taken instead of count lines.
BaseOperator_runRepeat_CountMore(name, vs, position, count) ==
    OperatorRun(name, [vs EXCEPT !.currentRegisterMode = LineWise],
                getLineBegin(position),
                getLineEnd(vs.document, getDownByCount(vs.document, position, count)))

\* BaseOperator.runRepeat: the doubled form acts line-wise on count lines.
BaseOperator_runRepeat(name, vs, position, count) ==
    OperatorRun(name, [vs EXCEPT !.currentRegisterMode = LineWise],
                getLineBegin(position),
                getLineEnd(vs.document,
                           getDownByCount(vs.document, position, Max(0, count - 1))))

\* Faulty variant: the indentation is queued before the run queues the deletion.
ChangeOperator_runRepeat_IndentFirst(vs, position, count) == ChangeOperator_run(pushTransformation([vs EXCEPT !.currentRegisterMode = LineWise], [type |-> "insertText", start |-> getLineBegin(position), end |-> getLineBegin(position), diff |-> DiffNone, text |-> getText(vs.document, getLineBegin(position), getFirstLineNonBlankChar(vs.document, position)), cursorIndex |-> vs.recordedState.multicursorIndex]), getLineBegin(position), getLineEnd(vs.document, getDownByCount(vs.document, position, Max(0, count - 1))))

\* ChangeOperator.runRepeat (autoindent on, plaintext document): the line's
\* indentation is captured before the run and re-inserted after the deletion.
ChangeOperator_runRepeat(vs, position, count) ==
    LET d == vs.document
        thisLineIndent == getText(d, getLineBegin(position),
                                  getFirstLineNonBlankChar(d, position))
        vs1 == ChangeOperator_run([vs EXCEPT !.currentRegisterMode = LineWise],
                   getLineBegin(position),
                   getLineEnd(d, getDownByCount(d, position, Max(0, count - 1))))
    IN  pushTransformation(vs1,
            [type |-> "insertText", start |-> getLineBegin(position),
             end |-> getLineBegin(position), diff |-> DiffNone,
             text |-> thisLineIndent,
             cursorIndex |-> vs.recordedState.multicursorIndex])

OperatorRunRepeat(name, vs, position, count) ==
    IF name = "ChangeOperator" THEN ChangeOperator_runRepeat(vs, position, count)
    ELSE BaseOperator_runRepeat(name, vs, position, count)

\* Position.IterateLine: for every line of the block selection, top to
\* bottom, the text of the line in the columns of the block.
IterateLine(vs) ==
    LET d == vs.document
        a == vs.cursorStartPosition
        b == vs.cursorStopPosition
        top == Min(a.line, b.line)
        bottom == Max(a.line, b.line)
        left == Min(a.character, b.character)
        right == Max(a.character, b.character)
        endCharacter(l) == Min(getLineLength(d, l), right + 1)
    IN  [i \in 1..(bottom - top + 1) |->
            [line |-> SubSeq(d[top + i], left + 1, endCharacter(top + i - 1)),
             start |-> Pos(top + i - 1, left),
             end |-> Pos(top + i - 1, endCharacter(top + i - 1))]]

RECURSIVE toCopyFrom(_, _, _, _)
toCopyFrom(lines, i, isMultiline, toCopy) ==
    IF i > Len(lines) THEN toCopy
    ELSE toCopyFrom(lines, i + 1, isMultiline,
                    IF isMultiline THEN toCopy \o lines[i].line \o <<NL>>
                    ELSE lines[i].line)

\* YankVisualBlockMode.run: the block's text goes to the register block-wise.
YankVisualBlockMode_run(vs, startPos, endPos) ==
    LET isMultiline == startPos.line # endPos.line
        toCopy == toCopyFrom(IterateLine(vs), 1, isMultiline, <<>>)
        vs1 == RegisterPut([vs EXCEPT !.currentRegisterMode = BlockWise], toCopy)
    IN  [setCurrentMode(vs1, Normal) EXCEPT !.cursorStopPosition = startPos]

\* DeleteOperatorVisual.run (D on a selection): a line-wise delete.
DeleteOperatorVisual_run(vs, start, end) ==
    DeleteOperator_run([vs EXCEPT !.currentRegisterMode = LineWise], start, end, TRUE)

\* ShiftYankOperatorVisual.run (Y on a selection): a line-wise yank.
ShiftYankOperatorVisual_run(vs, start, end) ==
    YankOperator_run([vs EXCEPT !.currentRegisterMode = LineWise], start, end)

\* DeleteOperatorXVisual.run (x on a selection).
DeleteOperatorXVisual_run(vs, start, end) == DeleteOperator_run(vs, start, end, TRUE)

\* String.toUpperCase on one character of the modelled alphabet.
toUpperCase(ch) ==
    CASE ch = "a" -> "A" [] ch = "b" -> "B" [] ch = "c" -> "C" [] ch = "d" -> "D"
      [] OTHER -> ch

\* UpperCaseOperator.run: the text from start to one past end is replaced at
\* once by its upper case.
UpperCaseOperator_run(vs, start, end) ==
    LET d == vs.document
        past == Pos(end.line, end.character + 1)
        text == getText(d, start, past)
        upper == [i \in 1..Len(text) |-> toUpperCase(text[i])]
        flat == JoinLines(d)
        d2 == SplitLines(SubSeq(flat, 1, getOffsetAt(d, start)) \o upper
                         \o SubSeq(flat, getOffsetAt(d, past) + 1, Len(flat)))
    IN  [setCurrentMode([vs EXCEPT !.document = d2], Normal)
            EXCEPT !.cursorStopPosition = start]

\* Faulty variant: no yank is repeatable with dot.
canBeRepeatedWithDot_NoYank(name) ==
    name \notin {"YankOperator", "YankVisualBlockMode", "ShiftYankOperatorVisual"}

\* canBeRepeatedWithDot: true in BaseOperator, overridden to false by
\* YankOperator and YankVisualBlockMode only.
canBeRepeatedWithDot(name) == name \notin {"YankOperator", "YankVisualBlockMode"}

\* Faulty variant: the block yank is run for every cursor like other actions.
runsOnceForEveryCursor_Always(name) == TRUE

\* The per-action flag: only the block yank overrides it to false.
runsOnceForEveryCursor(name) == name # "YankVisualBlockMode"

----------------------------------------------------------------------------
(* Applying the queued transformations at the end of a key event, in the   *)
(* order queued; the host moves the cursor through each edit and the       *)
(* transformation's diff is then added to it.                              *)

insertText(d, at, text) ==
    LET off == getOffsetAt(d, at)
        flat == JoinLines(d)
    IN  SplitLines(SubSeq(flat, 1, off) \o text \o SubSeq(flat, off + 1, Len(flat)))

cursorThroughDelete(d, p, a0, b0) ==
    LET a1 == validatePosition(d, a0)
        b1 == validatePosition(d, b0)
        a == EarlierOf(a1, b1)
        b == LaterOf(a1, b1)
    IN  IF isBeforeOrEqual(p, a) THEN p
        ELSE IF isBeforeOrEqual(p, b) THEN a
        ELSE IF p.line = b.line
             THEN Pos(a.line, a.character + (p.character - b.character))
        ELSE Pos(p.line - (b.line - a.line), p.character)

cursorThroughInsert(p, at, text) ==
    IF p.line = at.line /\ p.character >= at.character
    THEN Pos(p.line, p.character + Len(text)) ELSE p

addDiff(p, diff) ==
    IF diff = DiffBOL THEN Pos(p.line, 0)
    ELSE IF diff = DiffLeft THEN Pos(p.line, Max(0, p.character - 1))
    ELSE p

applyTransformation(st, t) ==
    IF t.type = "deleteRange"
    THEN [document |-> deleteText(st.document, t.start, t.end),
          cursor |-> addDiff(cursorThroughDelete(st.document, st.cursor,
                                                 t.start, t.end), t.diff)]
    ELSE [document |-> insertText(st.document, t.start, t.text),
          cursor |-> cursorThroughInsert(st.cursor, t.start, t.text)]

addPositionDiff(p, diff) == Pos(p.line + diff.line, p.character + diff.character)

RECURSIVE applyTransformations(_, _)
applyTransformations(st, ts) ==
    IF Len(ts) = 0 THEN st
    ELSE applyTransformations(applyTransformation(st, Head(ts)), Tail(ts))

\* Faulty variant: the cursor is left where the action put it.
keepCursorInBounds_Unchecked(d, m, p) == p

\* Normal mode keeps the cursor on a character; the other modes allow the
\* position past the end of the line.
keepCursorInBounds(d, m, p) ==
    LET q == validatePosition(d, p)
    IN  IF m = Normal /\ q.character >= getLineLength(d, q.line)
        THEN Pos(q.line, Max(0, getLineLength(d, q.line) - 1))
        ELSE q

\* executeCommand after an operator: apply the queue (cursor taken from the
\* editor selection, i.e. the cursor before the key, then moved by the
\* operator position adjustment), or, with nothing queued, keep the cursor
\* the operator left.
executeCommand(vs, selection) ==
    LET ts == vs.recordedState.transformations
        applied(st) ==
            LET edited == addPositionDiff(st.cursor, vs.recordedState.operatorPositionDiff)
                stop0 == IF Len(ts) > 0 THEN edited ELSE vs.cursorStopPosition
                start0 == IF Len(ts) > 0 THEN edited ELSE vs.cursorStartPosition
                stop == keepCursorInBounds(st.document, vs.currentMode, stop0)
                start == IF isVisualMode(vs.currentMode)
                         THEN validatePosition(st.document, start0) ELSE stop
            IN  [vs EXCEPT !.document = st.document,
                           !.cursorStopPosition = stop,
                           !.cursorStartPosition = start,
                           !.recordedState.transformations = <<>>]
    IN  applied(applyTransformations(
                    [document |-> vs.document, cursor |-> selection], ts))

----------------------------------------------------------------------------
(* The VimState aggregate and the history record                           *)

\* new RecordedState(): nothing pending.  multicursorIndex is the field of the
\* operator instance held by the record, undefined until a per-cursor run
\* assigns it.
NewRecordedState ==
    [count |-> 0, actionsRun |-> <<>>, actionKeys |-> <<>>,
     transformations |-> <<>>, hasRunOperator |-> FALSE,
     multicursorIndex |-> NoCursorIndex,
     operatorPositionDiff |-> [line |-> 0, character |-> 0]]

EmptyRegister == [text |-> <<>>, registerMode |-> CharacterWise]

\* globalState.previousFullAction before any change was made.
NoFullAction == [actions |-> <<>>, count |-> 0]

\* SearchDirection.
Forward == 1
Backward == 0 - 1

\* globalState.searchState before any search was made.
NoSearchState ==
    [searchString |-> <<>>, searchDirection |-> Forward, matchRanges |-> <<>>]

\* lastSemicolonRepeatableMovement, lastCommaRepeatableMovement before any
\* f, F, t or T has found its character.
NoMovement == [name |-> "", keysPressed |-> <<>>]

NewVimState(d, m, start, stop, regMode, surround, markA) ==
    [document |-> d, currentMode |-> m,
     cursorStartPosition |-> start, cursorStopPosition |-> stop,
     cursorsInitialState |-> [start |-> start, stop |-> start],
     desiredColumn |-> stop.character,
     currentRegisterMode |-> regMode,
     register |-> EmptyRegister, registerWrites |-> 0,
     surround |-> surround, marks |-> [a |-> markA], whichwrap |-> {},
     previousFullAction |-> NoFullAction,
     searchState |-> NoSearchState,
     lastSemicolonRepeatableMovement |-> NoMovement,
     lastCommaRepeatableMovement |-> NoMovement,
     recordedState |-> NewRecordedState]

\* No movement result yet.
NoResult == [kind |-> "none"]

NoEvent(vs) ==
    [kind |-> "none", key |-> "", op |-> "", repeat |-> FALSE, count |-> 0,
     start |-> NoPosition, stop |-> NoPosition, motion |-> "", failed |-> FALSE,
     error |-> FALSE, queue |-> <<>>, result |-> NoResult, before |-> vs]

----------------------------------------------------------------------------
(* RecordedState: the operator of the command in progress                  *)

OperatorClasses ==
    {"DeleteOperator", "YankOperator", "ChangeOperator", "ChangeOperatorSVisual",
     "IndentOperator", "OutdentOperator"}

operators(rs) == SelectSeq(rs.actionsRun, LAMBDA a : a.name \in OperatorClasses)

\* recordedState.operator: the last operator among the actions run, "" if none.
operator(rs) == IF Len(operators(rs)) = 0 THEN "" ELSE Last(operators(rs)).name

----------------------------------------------------------------------------
(* Motions and text objects (src/src/actions/motion.ts).  A motion returns *)
(* the VimState it may have touched and its result: a Position, an         *)
(* IMovement (start, stop, failed, registerMode) or a raised VimError.     *)

PositionResult(vs, p) ==
    [vimState |-> vs,
     result |-> [kind |-> "Position", start |-> NoPosition, stop |-> p,
                 failed |-> FALSE, registerMode |-> ""]]

IMovement(vs, start, stop, failed, registerMode) ==
    [vimState |-> vs,
     result |-> [kind |-> "IMovement", start |-> start, stop |-> stop,
                 failed |-> failed, registerMode |-> registerMode]]

VimError(vs) ==
    [vimState |-> vs,
     result |-> [kind |-> "VimError", start |-> NoPosition, stop |-> NoPosition,
                 failed |-> FALSE, registerMode |-> ""]]

isIMovement(r) == r.kind = "IMovement"

MinCount == 1

clampCount(count) == Max(count, MinCount)

MoveDown_execAction(position, vs) ==
    PositionResult(vs, getDown(vs.document, position, vs.desiredColumn))

MoveDown_execActionForOperator(position, vs) ==
    PositionResult([vs EXCEPT !.currentRegisterMode = LineWise],
        getDown(vs.document, position, getLineEnd(vs.document, position).character))

MoveUp_execAction(position, vs) ==
    PositionResult(vs, getUp(vs.document, position, vs.desiredColumn))

MoveUp_execActionForOperator(position, vs) ==
    PositionResult([vs EXCEPT !.currentRegisterMode = LineWise],
        getUp(vs.document, position, getLineEnd(vs.document, position).character))

\* The historyTracker's mark of that name; only mark a is ever set.
getMark(vs, markName) == IF markName = "a" THEN vs.marks.a ELSE NoPosition

MarkMovementBOL_execAction(position, vs, keysPressed) ==
    LET mark == getMark(vs, keysPressed[2])
        vs1 == [vs EXCEPT !.currentRegisterMode = LineWise]
    IN  IF mark = NoPosition THEN VimError(vs1)
        ELSE PositionResult(vs1,
                 getFirstLineNonBlankChar(vs.document,
                                          validatePosition(vs.document, mark)))

\* The backtick key is written <backtick>, as a string cannot hold it.

\* Faulty variant: a mark that is not set is taken for the start of the buffer.
MarkMovement_execAction_Unchecked(position, vs, keysPressed) == PositionResult(vs, validatePosition(vs.document, getMark(vs, keysPressed[2])))

MarkMovement_execAction(position, vs, keysPressed) ==
    LET mark == getMark(vs, keysPressed[2])
    IN  IF mark = NoPosition THEN VimError(vs)
        ELSE PositionResult(vs, validatePosition(vs.document, mark))

\* The letter whichwrap knows the key by: the arrows are < and > in the
\* Normal and Visual modes, [ and ] in Insert mode.
translateMovementKey(mode, key) ==
    IF key = "<left>" THEN (IF mode = Insert THEN "[" ELSE "<")
    ELSE IF key = "<right>" THEN (IF mode = Insert THEN "]" ELSE ">")
    ELSE key

shouldWrapKey(vs, keysPressed) ==
    translateMovementKey(vs.currentMode, keysPressed[1]) \in vs.whichwrap

\* Faulty variant: h and <left> wrap whatever whichwrap lists.
MoveLeft_execAction_Wraps(position, vs, keysPressed) == PositionResult(vs, getLeftThroughLineBreaks(vs.document, position, TRUE))

MoveLeft_execAction(position, vs, keysPressed) ==
    IF shouldWrapKey(vs, keysPressed)
    THEN PositionResult(vs, getLeftThroughLineBreaks(vs.document, position, TRUE))
    ELSE PositionResult(vs, getLeft(position))

MoveRight_execAction(position, vs, keysPressed) ==
    IF shouldWrapKey(vs, keysPressed)
    THEN PositionResult(vs, getRightThroughLineBreaks(vs.document, position,
                                                      vs.currentMode = Insert))
    ELSE PositionResult(vs, getRight(vs.document, position))

MoveLineBegin_execAction(position, vs) == PositionResult(vs, getLineBegin(position))

MoveDownNonBlank_execActionWithCount(position, vs, count) ==
    PositionResult([vs EXCEPT !.currentRegisterMode = LineWise],
        getFirstLineNonBlankChar(vs.document,
            getDownByCount(vs.document, position, Max(count, 1))))

MoveUpNonBlank_execActionWithCount(position, vs, count) ==
    PositionResult([vs EXCEPT !.currentRegisterMode = LineWise],
        getFirstLineNonBlankChar(vs.document,
            getUpByCount(position, Max(count, 1))))

MoveLineEnd_execActionWithCount(position, vs, count) ==
    PositionResult(vs,
        getLineEnd(vs.document,
            getDownByCount(vs.document, position, Max(count - 1, 0))))

MoveNextLineNonBlank_execActionWithCount(position, vs, count) ==
    PositionResult([vs EXCEPT !.currentRegisterMode = LineWise],
        getFirstLineNonBlankChar(vs.document,
            getDownByCount(vs.document, position, IF count = 0 THEN 1 ELSE count)))

MoveNonBlankLast_execActionWithCount(position, vs, count) ==
    LET stop == IF count = 0 THEN Pos(getLineCount(vs.document) - 1, 0)
                ELSE Pos(Min(count, getLineCount(vs.document)) - 1, 0)
    IN  IMovement(vs, vs.cursorStartPosition, stop, FALSE, LineWise)

\* MoveNonBlankFirst: line count - 1 as it is given, the first line without a
\* count; beyond the last line there is no text to look for a non-blank in.
MoveNonBlankFirst_execActionWithCount(position, vs, count) ==
    IF count = 0 THEN PositionResult(vs, getFirstLineNonBlankChar(vs.document, Pos(0, 0)))
    ELSE IF count - 1 < getLineCount(vs.document)
    THEN PositionResult(vs, getFirstLineNonBlankChar(vs.document, Pos(count - 1, 0)))
    ELSE PositionResult(vs, Pos(count - 1, 0))

\* MoveToColumn: column count - 1 of the line, as it is given.
MoveToColumn_execActionWithCount(position, vs, count) ==
    PositionResult(vs, Pos(position.line, Max(0, count - 1)))

\* positionAt: the position of a zero-based offset into the joined text.
RECURSIVE positionAt(_, _, _)
positionAt(d, offset, l) ==
    IF offset <= getLineLength(d, l) \/ l = getLineCount(d) - 1
    THEN Pos(l, Min(offset, getLineLength(d, l)))
    ELSE positionAt(d, offset - getLineLength(d, l) - 1, l + 1)

\* PairMatcher.pairings: the partner of a bracket and the direction in which
\* the partner is searched.
PairMatch(ch) ==
    CASE ch = "(" -> ")" [] ch = ")" -> "("
      [] ch = "<" -> ">" [] ch = ">" -> "<"

nextMatchIsForward(ch) == ch \in {"(", "<"}

\* Walks the text from offset i in steps of step, counting nested pairs; the
\* result is the one-based index of the unmatched partner, 0 if there is none.
RECURSIVE scanPair(_, _, _, _, _, _, _)
scanPair(flat, i, step, charToMatch, partner, stackHeight, origin) ==
    IF i < 1 \/ i > Len(flat) THEN 0
    ELSE IF flat[i] = charToMatch /\ i # origin
         THEN scanPair(flat, i + step, step, charToMatch, partner, stackHeight + 1, origin)
    ELSE IF flat[i] = partner /\ stackHeight = 0 THEN i
    ELSE IF flat[i] = partner
         THEN scanPair(flat, i + step, step, charToMatch, partner, stackHeight - 1, origin)
    ELSE scanPair(flat, i + step, step, charToMatch, partner, stackHeight, origin)

\* PairMatcher.nextPairedChar: the position of the partner of charToMatch that
\* encloses position, NoPosition if there is none.  The character at position
\* is itself the partner found while nothing is selected; with a selection
\* (a text object applied again) the search starts beyond it, so that the
\* range grows outward.
nextPairedChar(vs, position, charToMatch) ==
    LET d == vs.document
        flat == JoinLines(d)
        origin == getOffsetAt(d, position) + 1
        step == IF nextMatchIsForward(charToMatch) THEN 1 ELSE 0 - 1
        from == IF vs.cursorStartPosition = vs.cursorStopPosition THEN origin
                ELSE origin + step
        found == scanPair(flat, from, step, charToMatch, PairMatch(charToMatch), 0, origin)
    IN  IF found = 0 THEN NoPosition ELSE positionAt(d, found - 1, 0)

isInLeadingWhitespace(d, p) ==
    /\ getLineLength(d, p.line) > 0
    /\ \A i \in 1..Min(p.character + 1, getLineLength(d, p.line)) : Blank(d[p.line + 1][i])

subtract(p, q) == [line |-> p.line - q.line, character |-> p.character - q.character]

\* Faulty variant: the failed range is the position alone, not the selection.
MoveInsideCharacter_execAction_FailureCollapsed(position0, vs0, charToMatch, includeSurrounding) == IMovement(vs0, position0, position0, TRUE, "")

\* Faulty variant: a missing pair is not reported as a failed range.
MoveInsideCharacter_execAction_FailureUnflagged(position0, vs0, charToMatch, includeSurrounding) ==
    IMovement(vs0, vs0.cursorStartPosition, position0, FALSE, "")

\* MoveInsideCharacter.execAction: the bracket text objects.
MoveInsideCharacter_execAction(position0, vs0, charToMatch, includeSurrounding) ==
    LET d == vs0.document
        closingChar == PairMatch(charToMatch)
        cursorStartPos0 == vs0.cursorStartPosition
        adjacentPosLeft == getLeftThroughLineBreaks(d, cursorStartPos0, TRUE)
        adjacentPosRight0 == getRightThroughLineBreaks(d, position0, FALSE)
        adjacentPosRight == IF operator(vs0.recordedState) # ""
                            THEN getLeftThroughLineBreaks(d, adjacentPosRight0, TRUE)
                            ELSE adjacentPosRight0
        \* the pair found (or not) around cursorStartPos and position
        paired(cursorStartPos, position, vs, startPos0, endPos0) ==
            IF startPos0 = NoPosition \/ endPos0 = NoPosition
            THEN IMovement(vs, cursorStartPos0, position0, TRUE, "")
            ELSE
            LET startPlusOne ==
                    IF ~ isBefore(startPos0, getLeft(getLineEnd(d, startPos0)))
                    THEN Pos(startPos0.line + 1, 0)
                    ELSE Pos(startPos0.line, startPos0.character + 1)
                endPos1 == IF isInLeadingWhitespace(d, endPos0)
                           THEN getLineBegin(endPos0) ELSE endPos0
                endPos == IF includeSurrounding
                          THEN IF vs.currentMode # Visual
                               THEN Pos(endPos0.line, endPos0.character + 1) ELSE endPos0
                          ELSE IF vs.currentMode = Visual
                               THEN getLeftThroughLineBreaks(d, endPos1, TRUE) ELSE endPos1
                startPos == IF includeSurrounding THEN startPos0 ELSE startPlusOne
            IN  IMovement([vs EXCEPT !.recordedState.operatorPositionDiff =
                                         IF isBefore(position, startPos)
                                         THEN subtract(startPos, position) ELSE @,
                                     !.cursorStartPosition = startPos],
                          startPos, endPos, FALSE, "")
        \* the selection, grown by one character each side when it already
        \* holds the inside of a pair
        selected(cursorStartPos, position, vs) ==
            paired(cursorStartPos, position, vs,
                   nextPairedChar(vs, cursorStartPos, closingChar),
                   nextPairedChar(vs, position, charToMatch))
    IN  IF /\ ~ includeSurrounding
           /\ getCharAt(d, adjacentPosLeft) = charToMatch
           /\ getCharAt(d, adjacentPosRight) = closingChar
        THEN selected(adjacentPosLeft, adjacentPosRight,
                      [vs0 EXCEPT !.cursorStartPosition = adjacentPosLeft,
                                  !.cursorStopPosition = adjacentPosRight])
        ELSE selected(cursorStartPos0, position0, vs0)

\* QuoteMatcher: the quotes of one line; findOpening is the nearest quote at
\* or before the column, else the first one after it; findClosing the first
\* quote at or after the column; -1 when there is none.
findClosing(text, char, start) ==
    LET at == {i \in Max(start, 0)..(Len(text) - 1) : text[i + 1] = char}
    IN  IF at = {} THEN 0 - 1 ELSE CHOOSE i \in at : \A k \in at : i <= k

findOpening(text, char, start) ==
    LET at == {i \in 0..Min(start, Len(text) - 1) : text[i + 1] = char}
    IN  IF at = {} THEN findClosing(text, char, start)
        ELSE CHOOSE i \in at : \A k \in at : i >= k

\* MoveQuoteMatch.execAction: the quote text objects, within one line.
MoveQuoteMatch_execAction(position, vs, charToMatch, includeSurrounding) ==
    LET d == vs.document
        text == d[position.line + 1]
        matched(start, end) ==
            IF start = 0 - 1 \/ end = 0 - 1 \/ end = start \/ end < position.character
            THEN IMovement(vs, position, position, TRUE, "")
            ELSE
            LET startPos == IF includeSurrounding THEN Pos(position.line, start)
                            ELSE getRight(d, Pos(position.line, start))
                endPos == IF includeSurrounding THEN Pos(position.line, end)
                          ELSE getLeft(Pos(position.line, end))
            IN  IMovement([vs EXCEPT !.recordedState.operatorPositionDiff =
                                         IF isBefore(position, startPos)
                                         THEN subtract(startPos, position) ELSE @],
                          startPos, endPos, FALSE, "")
        \* the opening quote found is the last quote of the line: it closes
        closed(start, end) ==
            IF end < start /\ start = position.character
            THEN matched(findOpening(text, charToMatch, start - 1), start)
            ELSE matched(start, end)
        opened(start) == closed(start, findClosing(text, charToMatch, start + 1))
    IN  opened(findOpening(text, charToMatch, position.character))

\* MoveQuoteMatch.execActionForOperator: a failed match clears the command in
\* progress; a match is extended over the closing quote.
MoveQuoteMatch_execActionForOperator(position, vs, charToMatch, includeSurrounding) ==
    LET forOperator(r) ==
            IF r.result.failed
            THEN [r EXCEPT !.vimState.recordedState.hasRunOperator = FALSE,
                           !.vimState.recordedState.actionsRun = <<>>]
            ELSE [r EXCEPT !.result.stop = getRight(vs.document, r.result.stop)]
    IN  forOperator(MoveQuoteMatch_execAction(position, vs, charToMatch,
                                              includeSurrounding))

\* The class of a character for the word motions: blank, word or punctuation.
charClass(ch) ==
    IF Blank(ch) THEN "blank"
    ELSE IF ch \in {"(", ")", "<", ">", "\"", "'", ".", ","} THEN "punctuation"
    ELSE "word"

\* The columns of line l at which a word begins: a non-blank character that
\* starts the line or follows a character of another class; an empty line is
\* a word of its own.
wordStarts(d, l) ==
    LET text == d[l + 1]
    IN  IF Len(text) = 0 THEN {0}
        ELSE {c \in 0..(Len(text) - 1) :
                /\ ~ Blank(text[c + 1])
                /\ c > 0 => charClass(text[c]) # charClass(text[c + 1])}

\* The columns of line l at which a word ends.
wordEnds(d, l) ==
    LET text == d[l + 1]
    IN  IF Len(text) = 0 THEN {0}
        ELSE {c \in 0..(Len(text) - 1) :
                /\ ~ Blank(text[c + 1])
                /\ c + 1 < Len(text) => charClass(text[c + 2]) # charClass(text[c + 1])}

\* The first position from line l on, after column c on line l itself, that
\* lies in stops; the end of the document when there is none.
RECURSIVE nextStop(_, _, _, _)
nextStop(stops(_, _), d, l, c) ==
    LET here == {x \in stops(d, l) : x > c}
    IN  IF here # {} THEN Pos(l, CHOOSE x \in here : \A y \in here : x <= y)
        ELSE IF l = getLineCount(d) - 1 THEN Pos(l, getLineLength(d, l))
        ELSE nextStop(stops, d, l + 1, 0 - 1)

\* Position.getWordRight: the start of the next word.
getWordRight(d, p) == nextStop(wordStarts, d, p.line, p.character)

\* Position.getCurrentWordEnd: the end of the word under or after the
\* position; when not inclusive, of a word that ends after the position.
getCurrentWordEnd(d, p, inclusive) ==
    nextStop(wordEnds, d, p.line, IF inclusive THEN p.character - 1 ELSE p.character)

\* Position.isFirstWordOfLine: the position is on the first non-blank column.
isFirstWordOfLine(d, p) == getFirstLineNonBlankChar(d, p).character = p.character

\* MoveWordBegin.execAction (w); cw on a non-blank acts like ce.
MoveWordBegin_execAction(position, vs, isLastIteration) ==
    LET d == vs.document
    IN  IF isLastIteration /\ operator(vs.recordedState) = "ChangeOperator"
        THEN IF getLineLength(d, position.line) < 1 THEN position
             ELSE IF Blank(getCharAt(d, position)) THEN getWordRight(d, position)
             ELSE getRight(d, getCurrentWordEnd(d, position, TRUE))
        ELSE getWordRight(d, position)

\* Faulty variant: the operator takes the motion's target as it is.
MoveWordBegin_execActionForOperator_Plain(position, vs) ==
    MoveWordBegin_execAction(position, vs, TRUE)

\* MoveWordBegin.execActionForOperator: a target on a following line is
\* replaced by the end of the line of the position.
MoveWordBegin_execActionForOperator(position, vs) ==
    LET d == vs.document
        result == MoveWordBegin_execAction(position, vs, TRUE)
    IN  IF \/ result.line > position.line + 1
           \/ result.line = position.line + 1 /\ isFirstWordOfLine(d, result)
        THEN getLineEnd(d, position)
        ELSE IF isLineEnd(d, result) THEN Pos(result.line, result.character + 1)
        ELSE result

\* SelectInnerWord.execAction (iw): the run of characters of one class around
\* the position; on an empty line the position itself.
SelectInnerWord_execAction(position, vs) ==
    LET text == vs.document[position.line + 1]
        at == Min(position.character, Len(text) - 1) + 1
        same(i) == charClass(text[i]) = charClass(text[at])
        first == CHOOSE i \in 1..at :
                    /\ \A j \in i..at : same(j)
                    /\ i > 1 => ~ same(i - 1)
        last == CHOOSE i \in at..Len(text) :
                    /\ \A j \in at..i : same(j)
                    /\ i < Len(text) => ~ same(i + 1)
    IN  IF Len(text) = 0 THEN IMovement(vs, position, position, FALSE, "")
        ELSE IMovement(vs, Pos(position.line, first - 1), Pos(position.line, last - 1),
                       FALSE, "")

\* TextObjectMovement.execActionForOperator: the stop is moved one column to
\* the right, the operator range being shortened by one again.
TextObjectMovement_execActionForOperator(position, vs) ==
    LET r == SelectInnerWord_execAction(position, vs)
    IN  [r EXCEPT !.result.stop = Pos(@.line, @.character + 1)]

\* The bracket and quote objects of the catalog.
BracketObjects ==
    {"MoveIParentheses", "MoveIClosingParentheses", "MoveAParentheses",
     "MoveAClosingParentheses", "MoveACaret", "MoveAClosingCaret"}

QuoteObjects == {"MoveADoubleQuotes", "MoveASingleQuotes"}

charToMatch(name) ==
    CASE name \in {"MoveIParentheses", "MoveIClosingParentheses", "MoveAParentheses",
                   "MoveAClosingParentheses"} -> "("
      [] name = "MoveACaret" -> "<"
      [] name = "MoveAClosingCaret" -> "<"
      [] name = "MoveADoubleQuotes" -> "\""
      [] name = "MoveASingleQuotes" -> "'"

\* includeSurrounding of the bracket object classes.
includeSurrounding(name) == name \notin {"MoveIParentheses", "MoveIClosingParentheses"}

\* execAction of the motion classes that define it.
execAction(a, position, vs) ==
    CASE a.name = "MoveDown" -> MoveDown_execAction(position, vs)
      [] a.name = "MoveUp" -> MoveUp_execAction(position, vs)
      [] a.name \in {"MoveLeft", "MoveLeftArrow"} ->
            MoveLeft_execAction(position, vs, a.keysPressed)
      [] a.name \in {"MoveRight", "MoveRightArrow"} ->
            MoveRight_execAction(position, vs, a.keysPressed)
      [] a.name = "MoveLineBegin" -> MoveLineBegin_execAction(position, vs)
      [] a.name = "MarkMovementBOL" -> MarkMovementBOL_execAction(position, vs, a.keysPressed)
      [] a.name = "MarkMovement" -> MarkMovement_execAction(position, vs, a.keysPressed)
      [] a.name \in BracketObjects ->
            MoveInsideCharacter_execAction(position, vs, charToMatch(a.name),
                                           includeSurrounding(a.name))
      [] a.name \in QuoteObjects ->
            MoveQuoteMatch_execAction(position, vs, charToMatch(a.name), TRUE)
      [] a.name = "SelectInnerWord" -> SelectInnerWord_execAction(position, vs)
      [] a.name = "MoveWordBegin" ->
            PositionResult(vs, MoveWordBegin_execAction(position, vs, FALSE))

\* BaseMovement.execActionForOperator: execAction unless the class overrides it.
execActionForOperator(a, position, vs) ==
    CASE a.name = "MoveDown" -> MoveDown_execActionForOperator(position, vs)
      [] a.name = "MoveUp" -> MoveUp_execActionForOperator(position, vs)
      [] a.name \in QuoteObjects ->
            MoveQuoteMatch_execActionForOperator(position, vs, charToMatch(a.name), TRUE)
      [] a.name = "SelectInnerWord" ->
            TextObjectMovement_execActionForOperator(position, vs)
      [] a.name = "MoveWordBegin" ->
            PositionResult(vs, MoveWordBegin_execActionForOperator(position, vs))
      [] OTHER -> execAction(a, position, vs)

\* The operator is read from the RecordedState the count loop started with.
createMovementResult(a, position, vs, hasOperator, lastIteration) ==
    IF hasOperator /\ lastIteration
    THEN execActionForOperator(a, position, vs)
    ELSE execAction(a, position, vs)

\* Faulty variant: every iteration starts where the first one did.
adjustPosition_StartsOver(a, d, position, result, lastIteration) == position

\* adjustPosition: where the next iteration starts after an IMovement;
\* expanding selections (the bracket objects) continue from the stop itself.
adjustPosition(a, d, position, result, lastIteration) ==
    IF lastIteration THEN position
    ELSE IF a.name \in BracketObjects THEN result.stop
    ELSE getRightThroughLineBreaks(d, result.stop, FALSE)

\* The loop of BaseMovement.execActionWithCount, iteration i of count.
RECURSIVE countLoop(_, _, _, _, _, _, _, _, _)
countLoop(a, position, vs, hasOperator, count, i, result, prevResult, firstMovementStart) ==
    IF i = count
    THEN IF a.name \notin BracketObjects /\ isIMovement(result)
         THEN [vimState |-> vs, result |-> [result EXCEPT !.start = firstMovementStart]]
         ELSE [vimState |-> vs, result |-> result]
    ELSE
    LET lastIteration == i = count - 1
        iterate(r) ==
            IF r.result.kind = "VimError" THEN r
            ELSE IF r.result.kind = "Position"
            THEN countLoop(a, r.result.stop, r.vimState, hasOperator, count, i + 1,
                           r.result, prevResult, firstMovementStart)
            ELSE IF prevResult # NoResult /\ r.result.failed
            THEN [vimState |-> r.vimState, result |-> prevResult]
            ELSE countLoop(a,
                     adjustPosition(a, vs.document, position, r.result, lastIteration),
                     r.vimState, hasOperator, count, i + 1, r.result, r.result,
                     IF i = 0 THEN r.result.start ELSE firstMovementStart)
    IN  iterate(createMovementResult(a, position, vs, hasOperator, lastIteration))

BaseMovement_execActionWithCount(a, position, vs, count) ==
    countLoop(a, position, vs, operator(vs.recordedState) # "", clampCount(count), 0,
              NoResult, NoResult, position)

\* Position.findForwards, findBackwards: the count-th occurrence of the
\* character on the line right or left of the position, NoPosition if there
\* are fewer; tilForwards, tilBackwards: the position next to it on the
\* side of the start.
RECURSIVE nthColumn(_, _, _)
nthColumn(columns, count, forwards) ==
    IF columns = {} THEN 0 - 1
    ELSE LET c == CHOOSE x \in columns :
                     \A y \in columns : IF forwards THEN x <= y ELSE x >= y
         IN  IF count <= 1 THEN c ELSE nthColumn(columns \ {c}, count - 1, forwards)

findForwards(d, p, char, count) ==
    LET text == d[p.line + 1]
        c == nthColumn({x \in (p.character + 1)..(Len(text) - 1) : text[x + 1] = char},
                       count, TRUE)
    IN  IF c < 0 THEN NoPosition ELSE Pos(p.line, c)

findBackwards(d, p, char, count) ==
    LET text == d[p.line + 1]
        c == nthColumn({x \in 0..(Min(p.character, Len(text)) - 1) : text[x + 1] = char},
                       count, FALSE)
    IN  IF c < 0 THEN NoPosition ELSE Pos(p.line, c)

tilForwards(d, p, char, count) ==
    LET found == findForwards(d, p, char, count)
    IN  IF found = NoPosition THEN NoPosition ELSE Pos(found.line, found.character - 1)

tilBackwards(d, p, char, count) ==
    LET found == findBackwards(d, p, char, count)
    IN  IF found = NoPosition THEN NoPosition ELSE Pos(found.line, found.character + 1)

FindClasses == {"MoveFindForward", "MoveFindBackward", "MoveTilForward", "MoveTilBackward"}

\* The class stored for the comma key.
Reversed(name) ==
    CASE name = "MoveFindForward" -> "MoveFindBackward"
      [] name = "MoveFindBackward" -> "MoveFindForward"
      [] name = "MoveTilForward" -> "MoveTilBackward"
      [] name = "MoveTilBackward" -> "MoveTilForward"

findOrTil(name, d, p, char, count) ==
    CASE name = "MoveFindForward" -> findForwards(d, p, char, count)
      [] name = "MoveFindBackward" -> findBackwards(d, p, char, count)
      [] name = "MoveTilForward" -> tilForwards(d, p, char, count)
      [] name = "MoveTilBackward" -> tilBackwards(d, p, char, count)

\* Faulty variant: a repeat stores itself as the movement to repeat.
MoveFind_execActionWithCount_RepeatStores(name, keysPressed, isRepeat, position, vs, count) == LET n == IF count = 0 THEN 1 ELSE count first == findOrTil(name, vs.document, position, keysPressed[2], n) result == IF name \in {"MoveTilForward", "MoveTilBackward"} /\ first # NoPosition /\ isRepeat /\ position = first /\ n = 1 THEN findOrTil(name, vs.document, position, keysPressed[2], 2) ELSE first IN IF result = NoPosition THEN IMovement(vs, position, position, TRUE, "") ELSE PositionResult([vs EXCEPT !.lastSemicolonRepeatableMovement = [name |-> name, keysPressed |-> keysPressed], !.lastCommaRepeatableMovement = [name |-> Reversed(name), keysPressed |-> keysPressed]], IF name \in {"MoveFindForward", "MoveTilForward"} /\ operator(vs.recordedState) # "" THEN getRight(vs.document, result) ELSE result)

\* execActionWithCount of MoveFindForward, MoveFindBackward, MoveTilForward
\* and MoveTilBackward; isRepeat is set in the instances stored for ; and ,
MoveFind_execActionWithCount(name, keysPressed, isRepeat, position, vs, count) ==
    LET n == IF count = 0 THEN 1 ELSE count
        toFind == keysPressed[2]
        first == findOrTil(name, vs.document, position, toFind, n)
        result == IF /\ name \in {"MoveTilForward", "MoveTilBackward"}
                     /\ first # NoPosition /\ isRepeat /\ position = first /\ n = 1
                  THEN findOrTil(name, vs.document, position, toFind, 2)
                  ELSE first
        stored == IF isRepeat THEN vs
                  ELSE [vs EXCEPT
                           !.lastSemicolonRepeatableMovement =
                               [name |-> name, keysPressed |-> keysPressed],
                           !.lastCommaRepeatableMovement =
                               [name |-> Reversed(name), keysPressed |-> keysPressed]]
    IN  IF result = NoPosition THEN IMovement(vs, position, position, TRUE, "")
        ELSE PositionResult(stored,
                 IF /\ name \in {"MoveFindForward", "MoveTilForward"}
                    /\ operator(vs.recordedState) # ""
                 THEN getRight(vs.document, result) ELSE result)

\* MoveRepeat (;) and MoveRepeatReversed (,).
MoveRepeat_execActionWithCount(movement, position, vs, count) ==
    IF movement = NoMovement THEN PositionResult(vs, position)
    ELSE MoveFind_execActionWithCount(movement.name, movement.keysPressed, TRUE,
                                      position, vs, count)

\* execActionWithCount of the motion named by a, at position, with the count
\* typed so far (0 when none was typed).
execActionWithCount(a, position, vs, count) ==
    CASE a.name = "MoveDownNonBlank" -> MoveDownNonBlank_execActionWithCount(position, vs, count)
      [] a.name = "MoveUpNonBlank" -> MoveUpNonBlank_execActionWithCount(position, vs, count)
      [] a.name = "MoveLineEnd" -> MoveLineEnd_execActionWithCount(position, vs, count)
      [] a.name = "MoveNextLineNonBlank" ->
            MoveNextLineNonBlank_execActionWithCount(position, vs, count)
      [] a.name = "MoveNonBlankLast" -> MoveNonBlankLast_execActionWithCount(position, vs, count)
      [] a.name = "MoveNonBlankFirst" ->
            MoveNonBlankFirst_execActionWithCount(position, vs, count)
      [] a.name = "MoveToColumn" -> MoveToColumn_execActionWithCount(position, vs, count)
      [] a.name \in FindClasses ->
            MoveFind_execActionWithCount(a.name, a.keysPressed, FALSE, position, vs, count)
      [] a.name = "MoveRepeat" ->
            MoveRepeat_execActionWithCount(vs.lastSemicolonRepeatableMovement,
                                           position, vs, count)
      [] a.name = "MoveRepeatReversed" ->
            MoveRepeat_execActionWithCount(vs.lastCommaRepeatableMovement,
                                           position, vs, count)
      [] OTHER -> BaseMovement_execActionWithCount(a, position, vs, count)

----------------------------------------------------------------------------
(* The action catalog and the key-sequence matcher                         *)

AllModes == {Normal, Visual, VisualLine, VisualBlock}

ActionEntry(name, keys, modes, kind, mustBeFirstKey) ==
    [name |-> name, keys |-> keys, modes |-> modes, kind |-> kind,
     mustBeFirstKey |-> mustBeFirstKey, keysPressed |-> <<>>]

\* The operator classes, in registration order.
Operators ==
    << ActionEntry("DeleteOperator", <<"d">>, {Normal, Visual, VisualLine}, "operator", FALSE),
       ActionEntry("YankOperator", <<"y">>, {Normal, Visual, VisualLine}, "operator", FALSE),
       ActionEntry("ChangeOperatorSVisual", <<"s">>, {Visual, VisualLine}, "operator", FALSE),
       ActionEntry("IndentOperator", <<">">>, {Normal}, "operator", FALSE),
       ActionEntry("OutdentOperator", <<"<">>, {Normal}, "operator", FALSE),
       ActionEntry("ChangeOperator", <<"c">>, {Normal, Visual, VisualLine}, "operator", FALSE) >>

\* The motion classes, in registration order.
Movements ==
    << ActionEntry("MoveDown", <<"j">>, AllModes, "motion", FALSE),
       ActionEntry("MoveUp", <<"k">>, AllModes, "motion", FALSE),
       ActionEntry("MarkMovementBOL", <<"'", "<character>">>, AllModes, "motion", FALSE),
       ActionEntry("MarkMovement", <<"<backtick>", "<character>">>, AllModes, "motion", FALSE),
       ActionEntry("MoveFindForward", <<"f", "<character>">>, AllModes, "motion", FALSE),
       ActionEntry("MoveFindBackward", <<"F", "<character>">>, AllModes, "motion", FALSE),
       ActionEntry("MoveTilForward", <<"t", "<character>">>, AllModes, "motion", FALSE),
       ActionEntry("MoveTilBackward", <<"T", "<character>">>, AllModes, "motion", FALSE),
       ActionEntry("MoveRepeat", <<";">>, AllModes, "motion", FALSE),
       ActionEntry("MoveRepeatReversed", <<",">>, AllModes, "motion", FALSE),
       ActionEntry("MoveLeft", <<"h">>, AllModes, "motion", FALSE),
       ActionEntry("MoveLeftArrow", <<"<left>">>, AllModes, "motion", FALSE),
       ActionEntry("MoveRight", <<"l">>, AllModes, "motion", FALSE),
       ActionEntry("MoveRightArrow", <<"<right>">>, AllModes, "motion", FALSE),
       ActionEntry("MoveLineBegin", <<"0">>, AllModes, "motion", FALSE),
       ActionEntry("MoveDownNonBlank", <<"+">>, AllModes, "motion", FALSE),
       ActionEntry("MoveUpNonBlank", <<"-">>, AllModes, "motion", FALSE),
       ActionEntry("MoveLineEnd", <<"$">>, AllModes, "motion", FALSE),
       ActionEntry("MoveNextLineNonBlank", <<NL>>, AllModes, "motion", FALSE),
       ActionEntry("MoveToColumn", <<"|">>, AllModes, "motion", FALSE),
       ActionEntry("MoveNonBlankFirst", <<"g", "g">>, AllModes, "motion", FALSE),
       ActionEntry("MoveNonBlankLast", <<"G">>, AllModes, "motion", FALSE),
       ActionEntry("MoveIParentheses", <<"i", "(">>, AllModes, "motion", FALSE),
       ActionEntry("MoveIClosingParentheses", <<"i", ")">>, AllModes, "motion", FALSE),
       ActionEntry("MoveAParentheses", <<"a", "(">>, AllModes, "motion", FALSE),
       ActionEntry("MoveAClosingParentheses", <<"a", ")">>, AllModes, "motion", FALSE),
       ActionEntry("MoveACaret", <<"a", "<">>, AllModes, "motion", FALSE),
       ActionEntry("MoveAClosingCaret", <<"a", ">">>, AllModes, "motion", FALSE),
       ActionEntry("MoveASingleQuotes", <<"a", "'">>,
                   {Normal, Visual, VisualBlock}, "motion", FALSE),
       ActionEntry("MoveADoubleQuotes", <<"a", "\"">>,
                   {Normal, Visual, VisualBlock}, "motion", FALSE),
       ActionEntry("SelectInnerWord", <<"i", "w">>,
                   {Normal, Visual, VisualBlock}, "motion", FALSE),
       ActionEntry("MoveWordBegin", <<"w">>, AllModes, "motion", FALSE) >>

\* The commands the modelled keys reach.
Commands ==
    << ActionEntry("CommandNumber", <<"<number>">>, {Normal, Visual, VisualLine},
                   "command", FALSE),
       ActionEntry("CommandInsertAtCursor", <<"i">>, {Normal}, "command", TRUE),
       ActionEntry("CommandInsertAfterCursor", <<"a">>, {Normal}, "command", TRUE),
       ActionEntry("CommandVisualMode", <<"v">>, {Normal, VisualLine, VisualBlock},
                   "command", FALSE),
       ActionEntry("CommandExitVisualMode", <<"v">>, {Visual}, "command", FALSE),
       ActionEntry("CommandVisualLineMode", <<"V">>, {Normal, Visual, VisualBlock},
                   "command", FALSE),
       ActionEntry("CommandExitVisualLineMode", <<"V">>, {VisualLine}, "command", FALSE),
       ActionEntry("CommandVisualBlockMode", <<"<C-v>">>, AllModes, "command", FALSE) >>

Catalog == Operators \o Movements \o Commands

Digits == {"2", "3"}

DigitValue(k) == IF k = "0" THEN 0 ELSE IF k = "2" THEN 2 ELSE 3

\* The keys <number> stands for: the digits typed, and 0.
NumberKeys == Digits \cup {"0"}

EscKeys == {"<Esc>", "<C-[>"}

Keys ==
    {"d", "y", "c", ">", "<", "j", "k", "l", "$", "+", "-", NL, "'", "G", "a", "(", "\"",
     "v", "V", "<C-v>"} \cup Digits \cup EscKeys

\* BaseAction.CompareKeypressSequence, with the placeholders of the patterns.
CompareKeypressSequence(one, two) ==
    /\ Len(one) = Len(two)
    /\ \A i \in 1..Len(one) :
          \/ one[i] = two[i]
          \/ one[i] = "<character>"
          \/ one[i] = "<number>" /\ two[i] \in NumberKeys

RECURSIVE flattenKeys(_)
flattenKeys(actions) ==
    IF Len(actions) = 0 THEN <<>>
    ELSE Head(actions).keysPressed \o flattenKeys(Tail(actions))

RECURSIVE stripCount(_)
stripCount(keys) ==
    IF Len(keys) > 0 /\ Head(keys) \in NumberKeys THEN stripCount(Tail(keys)) ELSE keys

\* recordedState.commandWithoutCountPrefix: the keys of the command so far
\* without the leading count.
commandWithoutCountPrefix(rs) == stripCount(flattenKeys(rs.actionsRun) \o rs.actionKeys)

\* Faulty variant: a count typed after the operator hides it.
doesRepeatedOperatorApply_LastAction(a, vs, keysPressed) ==
    /\ a.kind = "operator"
    /\ Len(keysPressed) = 1
    /\ Len(vs.recordedState.actionsRun) > 0
    /\ vs.currentMode \in a.modes
    /\ Last(vs.recordedState.actionsRun).name = a.name
    /\ CompareKeypressSequence(<<Last(Last(vs.recordedState.actionsRun).keysPressed)>>,
                               keysPressed)

\* BaseOperator.doesRepeatedOperatorApply
doesRepeatedOperatorApply(a, vs, keysPressed) ==
    LET nonCountActions == SelectSeq(vs.recordedState.actionsRun,
                                     LAMBDA x : x.name # "CommandNumber")
    IN  /\ a.kind = "operator"
        /\ Len(keysPressed) = 1
        /\ Len(nonCountActions) > 0
        /\ vs.currentMode \in a.modes
        /\ Last(nonCountActions).name = a.name
        /\ CompareKeypressSequence(<<Last(Last(nonCountActions).keysPressed)>>, keysPressed)

prefixOf(keys, n) == SubSeq(keys, 1, Min(n, Len(keys)))

\* What the classes add to doesActionApply and couldActionApply: the line
\* begin motion asks for no count in progress, so that 0 is then a digit; a
\* count does not begin with 0.
appliesInState(a, vs, keysPressed) ==
    /\ a.name = "MoveLineBegin" => vs.recordedState.count = 0
    /\ (a.name = "CommandNumber" /\ keysPressed[1] = "0") => vs.recordedState.count > 0

\* Faulty variant: an operator is matched under a pending operator.
doesActionApply_OverOperator(a, vs, keysPressed) == doesRepeatedOperatorApply(a, vs, keysPressed) \/ (vs.currentMode \in a.modes /\ CompareKeypressSequence(a.keys, keysPressed) /\ ~ (a.mustBeFirstKey /\ Len(commandWithoutCountPrefix(vs.recordedState)) - Len(keysPressed) > 0) /\ appliesInState(a, vs, keysPressed))

\* Faulty variant: the line begin motion applies with a count in progress.
doesActionApply_WhateverCount(a, vs, keysPressed) ==
    \/ doesRepeatedOperatorApply(a, vs, keysPressed)
    \/ /\ vs.currentMode \in a.modes
       /\ CompareKeypressSequence(a.keys, keysPressed)
       /\ ~ (a.mustBeFirstKey
               /\ Len(commandWithoutCountPrefix(vs.recordedState)) - Len(keysPressed) > 0)
       /\ ~ (a.kind = "operator" /\ operator(vs.recordedState) # "")

\* doesActionApply; the doubled form and the pending-operator exclusion
\* concern the operator classes only.
doesActionApply(a, vs, keysPressed) ==
    \/ doesRepeatedOperatorApply(a, vs, keysPressed)
    \/ /\ vs.currentMode \in a.modes
       /\ CompareKeypressSequence(a.keys, keysPressed)
       /\ ~ (a.mustBeFirstKey
               /\ Len(commandWithoutCountPrefix(vs.recordedState)) - Len(keysPressed) > 0)
       /\ ~ (a.kind = "operator" /\ operator(vs.recordedState) # "")
       /\ appliesInState(a, vs, keysPressed)

couldActionApply(a, vs, keysPressed) ==
    /\ vs.currentMode \in a.modes
    /\ CompareKeypressSequence(prefixOf(a.keys, Len(keysPressed)), keysPressed)
    /\ ~ (a.mustBeFirstKey
            /\ Len(commandWithoutCountPrefix(vs.recordedState)) - Len(keysPressed) > 0)
    /\ ~ (a.kind = "operator" /\ operator(vs.recordedState) # "")
    /\ appliesInState(a, vs, keysPressed)

NoPossibleMatch == ActionEntry("NoPossibleMatch", <<>>, {}, "none", FALSE)

WaitingOnKeys == ActionEntry("WaitingOnKeys", <<>>, {}, "none", FALSE)

\* Actions.getRelevantAction: the first registered action that applies, else
\* whether some action could still apply.
getRelevantAction(keysPressed, vs) ==
    LET applies == {i \in 1..Len(Catalog) : doesActionApply(Catalog[i], vs, keysPressed)}
        could == {i \in 1..Len(Catalog) : couldActionApply(Catalog[i], vs, keysPressed)}
    IN  IF applies # {}
        THEN [Catalog[CHOOSE i \in applies : \A k \in applies : i <= k]
                 EXCEPT !.keysPressed = keysPressed]
        ELSE IF could # {} THEN WaitingOnKeys
        ELSE NoPossibleMatch

----------------------------------------------------------------------------
(* Key dispatch: one key event is matched, run, composed with the pending  *)
(* operator and its queued edits applied before the next key is accepted.  *)

\* The column $ leaves as desired column: beyond every line.
EOLColumn == 99

\* The command in progress is over: a fresh RecordedState, and the register
\* mode is ascertained from the mode again.
resetRecordedState(vs) ==
    [vs EXCEPT !.recordedState = NewRecordedState,
               !.currentRegisterMode = AscertainFromCurrentMode]

hasRunAMovement(rs) == \E i \in 1..Len(rs.actionsRun) : rs.actionsRun[i].kind = "motion"

isDoubled(rs) ==
    /\ Len(operators(rs)) > 1
    /\ operators(rs)[Len(operators(rs))].name = operators(rs)[Len(operators(rs)) - 1].name

operatorReadyToExecute(rs, mode) ==
    /\ operator(rs) # ""
    /\ ~ rs.hasRunOperator
    /\ \/ hasRunAMovement(rs)
       \/ mode \in {Visual, VisualLine}
       \/ isDoubled(rs)

\* What a key event did, for the history record.
Outcome(vs) ==
    [vimState |-> vs, op |-> "", repeat |-> FALSE, count |-> 0,
     start |-> NoPosition, stop |-> NoPosition, motion |-> "", failed |-> FALSE,
     error |-> FALSE, queue |-> <<>>, result |-> NoResult]

\* The result of a motion, with the cursor the motion left in vimState.
MotionResult(r) ==
    [kind |-> r.result.kind, start |-> r.result.start, stop |-> r.result.stop,
     failed |-> r.result.failed, registerMode |-> r.result.registerMode,
     cursorStartPosition |-> r.vimState.cursorStartPosition,
     cursorStopPosition |-> r.vimState.cursorStopPosition]

\* executeMovement: the motion runs with the count typed so far; its result
\* becomes the cursor (the stop only, while an operator is pending or a
\* selection is active); a failed result abandons the command in progress.
executeMovement(vs, a) ==
    LET rs == vs.recordedState
        bounded(counted) ==
            IF /\ counted.currentMode # Normal \/ operator(rs) # ""
               /\ counted.cursorStopPosition.line < getLineCount(counted.document)
               /\ counted.cursorStopPosition.character
                      > getLineLength(counted.document, counted.cursorStopPosition.line)
            THEN [counted EXCEPT !.cursorStopPosition =
                                     getLineEnd(counted.document, counted.cursorStopPosition)]
            ELSE counted
        moved(vs1, res) ==
            IF res.kind = "Position"
            THEN [vs1 EXCEPT !.cursorStopPosition = res.stop,
                             !.cursorStartPosition =
                                 IF ~ isVisualMode(vs1.currentMode)
                                       /\ operator(vs1.recordedState) = ""
                                 THEN res.stop ELSE @,
                             !.recordedState.count = 0]
            ELSE [vs1 EXCEPT !.recordedState =
                                 IF res.failed THEN NewRecordedState
                                 ELSE [@ EXCEPT !.count = 0],
                             !.cursorStartPosition = res.start,
                             !.cursorStopPosition = res.stop,
                             !.currentRegisterMode =
                                 IF res.registerMode # "" THEN res.registerMode ELSE @]
        outcome(r) ==
            IF r.result.kind = "VimError"
            THEN [Outcome(r.vimState) EXCEPT !.motion = a.name, !.error = TRUE]
            ELSE [Outcome(bounded(moved(r.vimState, r.result)))
                     EXCEPT !.motion = a.name, !.failed = r.result.failed,
                            !.result = MotionResult(r)]
    IN  outcome(execActionWithCount(a, vs.cursorStopPosition, vs, rs.count))

\* executeOperator: the range is ordered, made inclusive for a character-wise
\* motion, widened to whole lines for a line selection, and handed to run (to
\* runRepeat for the doubled form); the queued edits are then applied.
executeOperator(vs) ==
    LET rs == vs.recordedState
        d == vs.document
        name == operator(rs)
        cachedRegister == vs.currentRegisterMode
        swap == isAfter(vs.cursorStartPosition, vs.cursorStopPosition)
        start0 == IF swap THEN vs.cursorStopPosition ELSE vs.cursorStartPosition
        stop0 == IF swap THEN vs.cursorStartPosition ELSE vs.cursorStopPosition
        stop1 == IF ~ isVisualMode(vs.currentMode) /\ cachedRegister # LineWise
                 THEN getLeftThroughLineBreaks(d, stop0, TRUE) ELSE stop0
        start == IF vs.currentMode = VisualLine THEN getLineBegin(start0) ELSE start0
        stop == IF vs.currentMode = VisualLine THEN getLineEnd(d, stop1) ELSE stop1
        vs1 == IF vs.currentMode = VisualLine
               THEN [vs EXCEPT !.currentRegisterMode = LineWise] ELSE vs
        outcome(ran) ==
            [Outcome([executeCommand(ran, vs.cursorsInitialState.stop)
                         EXCEPT !.recordedState.hasRunOperator = TRUE,
                                !.recordedState.operatorPositionDiff =
                                    [line |-> 0, character |-> 0]])
                EXCEPT !.op = name, !.repeat = isDoubled(rs), !.count = rs.count,
                       !.start = start, !.stop = stop,
                       !.queue = ran.recordedState.transformations]
    IN  outcome(IF isDoubled(rs) THEN OperatorRunRepeat(name, vs1, start, rs.count)
                ELSE OperatorRun(name, vs1, start, stop))

\* Faulty variant: the activation key of the active mode keeps the mode.
CommandExitVisualMode_exec_Stays(vs) == vs

\* v in Visual, V in VisualLine: back to Normal.
CommandExitVisualMode_exec(vs) == setCurrentMode(vs, Normal)

\* The commands.  A count digit extends the count; the visual commands switch
\* to their mode, or back to Normal from it; a appends.
execCommand(vs, a) ==
    CASE a.name = "CommandNumber" ->
            [vs EXCEPT !.recordedState.count = @ * 10 + DigitValue(a.keysPressed[1])]
      [] a.name = "CommandInsertAtCursor" -> setCurrentMode(vs, Insert)
      [] a.name = "CommandInsertAfterCursor" ->
            [vs EXCEPT !.currentMode = Insert,
                       !.cursorStopPosition = getRight(vs.document, vs.cursorStopPosition)]
      [] a.name = "CommandVisualMode" -> setCurrentMode(vs, Visual)
      [] a.name = "CommandExitVisualMode" -> CommandExitVisualMode_exec(vs)
      [] a.name = "CommandVisualLineMode" -> setCurrentMode(vs, VisualLine)
      [] a.name = "CommandExitVisualLineMode" -> CommandExitVisualMode_exec(vs)
      [] a.name = "CommandVisualBlockMode" ->
            setCurrentMode(vs, IF vs.currentMode = VisualBlock THEN Normal ELSE VisualBlock)

isCompleteAction(a) == a.name # "CommandNumber"

\* The end of a key event: the desired column follows the cursor (j and k
\* keep it, $ sets it past every line), a completed command leaves a fresh
\* RecordedState, the cursor is kept within the buffer.
finishAction(out, a, ranAction0, hadOperator) ==
    LET vs == out.vimState
        ranAction == ranAction0 /\ vs.currentMode = Normal
        vs1 == IF a.kind = "motion" /\ a.name \in {"MoveDown", "MoveUp"} THEN vs
               ELSE IF a.kind # "motion" /\ vs.currentMode = VisualBlock THEN vs
               ELSE IF a.name = "MoveLineEnd" /\ ~ hadOperator
                    THEN [vs EXCEPT !.desiredColumn = EOLColumn]
               ELSE [vs EXCEPT !.desiredColumn = vs.cursorStopPosition.character]
        vs2 == IF ranAction THEN resetRecordedState(vs1) ELSE vs1
        stop == keepCursorInBounds(vs2.document, vs2.currentMode, vs2.cursorStopPosition)
        start == IF isVisualMode(vs2.currentMode) \/ operator(vs2.recordedState) # ""
                 THEN validatePosition(vs2.document, vs2.cursorStartPosition)
                 ELSE stop
    IN  [out EXCEPT !.vimState = [vs2 EXCEPT !.cursorStopPosition = stop,
                                             !.cursorStartPosition = start]]

\* runAction: the action runs; if the command in progress then holds an
\* operator and what it needs (a motion, a selection or its own doubled key),
\* the operator runs in the same key event.
runAction(vs, a) ==
    LET hadOperator == operator(vs.recordedState) # ""
        ranAction == a.kind = "motion" \/ (a.kind = "command" /\ isCompleteAction(a))
        composed(ran) ==
            IF ran.error THEN [ran EXCEPT !.vimState.recordedState = NewRecordedState]
            ELSE IF /\ ~ ran.failed
                    /\ operatorReadyToExecute(ran.vimState.recordedState,
                                              ran.vimState.currentMode)
            THEN finishAction([executeOperator(ran.vimState) EXCEPT !.motion = ran.motion,
                                                                    !.result = ran.result],
                              a, TRUE, hadOperator)
            ELSE finishAction(ran, a, ranAction, hadOperator)
    IN  composed(IF a.kind = "motion" THEN executeMovement(vs, a)
                 ELSE IF a.kind = "command" THEN Outcome(execCommand(vs, a))
                 ELSE Outcome(vs))

\* Faulty variant: the mode is left, the command in progress is kept.
handleEscape_KeepsPending(vs) == [vs EXCEPT !.currentMode = Normal]

\* The cancel key: Normal mode, nothing pending; leaving Insert the cursor
\* steps back onto the last character.
handleEscape(vs) ==
    LET left == IF vs.currentMode = Insert THEN getLeft(vs.cursorStopPosition)
                ELSE vs.cursorStopPosition
        stop == keepCursorInBounds(vs.document, Normal, left)
    IN  [resetRecordedState(vs) EXCEPT !.currentMode = Normal,
                                       !.surround = FALSE,
                                       !.cursorStopPosition = stop,
                                       !.cursorStartPosition = stop]

\* handleKeyEvent: the key joins the keys typed since the last action; a
\* sequence no action can match discards the command in progress.
handleKeyEvent(vs0, key) ==
    LET vs == [vs0 EXCEPT !.cursorsInitialState =
                              [start |-> vs0.cursorStartPosition,
                               stop |-> vs0.cursorStopPosition]]
        actionKeys == Append(vs.recordedState.actionKeys, key)
        typed == [vs EXCEPT !.recordedState.actionKeys = actionKeys]
        dispatch(a) ==
            IF a = NoPossibleMatch THEN Outcome(resetRecordedState(vs))
            ELSE IF a = WaitingOnKeys THEN Outcome(typed)
            ELSE runAction(
                     [vs EXCEPT !.recordedState.actionKeys = <<>>,
                                !.recordedState.actionsRun =
                                    Append(@, [name |-> a.name, kind |-> a.kind,
                                               keysPressed |-> a.keysPressed])],
                     a)
    IN  IF key \in EscKeys THEN Outcome(handleEscape(vs))
        ELSE dispatch(getRelevantAction(actionKeys, typed))

----------------------------------------------------------------------------
(* Operators applied to drawn ranges: the state is the one executeOperator *)
(* hands to run (mode, ordered range, register mode, surround request),    *)
(* the step is run followed by the application of what it queued.          *)

OpDocs ==
    { << <<"a", "b">> >>,
      << <<"a">>, <<>>, <<"b", "c">> >>,
      << <<" ", "a">>, <<"b">>, <<"c", "d">> >>,
      << <<"a">>, <<"b">>, <<>> >> }

\* The modes property of each operator class.
OperatorModes(name) ==
    CASE name = "DeleteOperator" -> {Normal, Visual, VisualLine}
      [] name = "YankOperator" -> {Normal, Visual, VisualLine}
      [] name = "ChangeOperator" -> {Normal, Visual, VisualLine}
      [] name = "ChangeOperatorSVisual" -> {Visual, VisualLine}
      [] name = "IndentOperator" -> {Normal}
      [] name = "OutdentOperator" -> {Normal}

\* The range handed to run: ordered; in VisualLine whole lines and LineWise;
\* in Normal mode both ends are on a character (a line-wise range may also
\* lie on empty lines), in the visual modes the stop may be the position past
\* the end of its line.
OpRangeOK(d, m, start, stop, regMode) ==
    /\ isBeforeOrEqual(start, stop)
    /\ m = VisualLine =>
          /\ regMode = LineWise
          /\ start = getLineBegin(start)
          /\ stop = getLineEnd(d, stop)
    /\ m = VisualBlock => regMode = AscertainFromCurrentMode
    /\ m = Normal =>
          \A p \in {start, stop} :
              \/ p.character < getLineLength(d, p.line)
              \/ regMode = LineWise /\ p.character = 0

InitOp ==
    /\ \E d \in OpDocs, m \in {Normal, Visual, VisualLine, VisualBlock},
          regMode \in {AscertainFromCurrentMode, LineWise}, surround \in BOOLEAN :
          \E start \in allPositions(d), stop \in allPositions(d) :
             /\ OpRangeOK(d, m, start, stop, regMode)
             /\ vimState = NewVimState(d, m, start, stop, regMode, surround, NoPosition)
    /\ ev = NoEvent(vimState)
    /\ keysHandled = 0

OperatorEvent(kind, name, vs, queued) ==
    [NoEvent(vs) EXCEPT !.kind = kind, !.op = name,
                        !.start = vs.cursorStartPosition,
                        !.stop = vs.cursorStopPosition,
                        !.queue = queued.recordedState.transformations]

\* Operator.run on the drawn range, then the queued edits are applied.  The
\* surround request is only ever pending together with a yank.
ApplyOperator(name) ==
    /\ ev.kind = "none"
    /\ vimState.currentMode \in OperatorModes(name)
    /\ vimState.surround => name = "YankOperator"
    /\ LET ran == OperatorRun(name, vimState, vimState.cursorStartPosition,
                              vimState.cursorStopPosition)
       IN  /\ vimState' = executeCommand(ran, vimState.cursorStopPosition)
           /\ ev' = OperatorEvent("operator", name, vimState, ran)
    /\ UNCHANGED keysHandled

\* DeleteOperator.delete called for a block selection (VisualBlock commands).
DeleteInVisualBlock ==
    /\ ev.kind = "none"
    /\ vimState.currentMode = VisualBlock
    /\ ~ vimState.surround
    /\ LET ran == DeleteOperator_delete(vimState, vimState.cursorStartPosition,
                      vimState.cursorStopPosition, vimState.currentMode,
                      effectiveRegisterMode(vimState), TRUE).vimState
       IN  /\ vimState' = executeCommand(ran, vimState.cursorStopPosition)
           /\ ev' = OperatorEvent("delete", "DeleteOperator", vimState, ran)
    /\ UNCHANGED keysHandled

\* The cursor set of a block selection with n cursors: the selection itself
\* and further cursors at the start of the document.
CursorSet(vs, n) ==
    [i \in 1..n |->
        IF i = 1 THEN [start |-> vs.cursorStartPosition, stop |-> vs.cursorStopPosition]
        ELSE [start |-> Pos(0, 0), stop |-> Pos(0, 0)]]

RECURSIVE runOnEachCursor(_, _, _)
runOnEachCursor(vs, cursors, i) ==
    IF i > Len(cursors) THEN vs
    ELSE runOnEachCursor(
             YankVisualBlockMode_run(
                 [vs EXCEPT !.recordedState.multicursorIndex = i - 1],
                 cursors[i].start, cursors[i].stop),
             cursors, i + 1)

\* The coordinator: an action flagged to run once for all cursors is run a
\* single time, any other once per cursor, index 0 first.
runOnCursors(name, vs, cursors) ==
    IF runsOnceForEveryCursor(name) THEN runOnEachCursor(vs, cursors, 1)
    ELSE YankVisualBlockMode_run(vs, cursors[1].start, cursors[1].stop)

\* y on a block selection with a set of cursors.
YankInVisualBlock ==
    /\ ev.kind = "none"
    /\ vimState.currentMode = VisualBlock
    /\ ~ vimState.surround
    /\ \E n \in 1..MaxCursors :
          LET cursors == CursorSet(vimState, n)
              ran == runOnCursors("YankVisualBlockMode", vimState, cursors)
          IN  /\ vimState' = executeCommand(ran, vimState.cursorStopPosition)
              /\ ev' = [kind |-> "yankBlock", op |-> "YankVisualBlockMode",
                        cursors |-> cursors, ran |-> ran,
                        start |-> vimState.cursorStartPosition,
                        stop |-> vimState.cursorStopPosition,
                        queue |-> ran.recordedState.transformations,
                        before |-> vimState]
    /\ UNCHANGED keysHandled

\* One run of the per-cursor loop: the operator instance is given the index
\* of its cursor, then run (runRepeat for the doubled form, count lines).
RunForCursor(name) ==
    /\ ev.kind = "none"
    /\ vimState.currentMode \in OperatorModes(name)
    /\ ~ vimState.surround
    /\ \E index \in 0..(MaxCursors - 1), count \in 0..MaxCount :
          LET vs == [vimState EXCEPT !.recordedState.multicursorIndex = index]
              ran == IF count = 0
                     THEN OperatorRun(name, vs, vs.cursorStartPosition,
                                      vs.cursorStopPosition)
                     ELSE OperatorRunRepeat(name, vs, vs.cursorStartPosition, count)
          IN  /\ count > 0 => vimState.currentMode = Normal
              /\ vimState' = executeCommand(ran, vimState.cursorStopPosition)
              /\ ev' = [kind |-> "cursorRun", op |-> name, index |-> index,
                        count |-> count,
                        start |-> vimState.cursorStartPosition,
                        stop |-> vimState.cursorStopPosition,
                        queue |-> ran.recordedState.transformations,
                        before |-> vs]
    /\ UNCHANGED keysHandled

NextOp ==
    \/ \E name \in OperatorClasses : ApplyOperator(name)
    \/ DeleteInVisualBlock
    \/ YankInVisualBlock
    \/ \E name \in OperatorClasses : RunForCursor(name)

SpecOp == InitOp /\ [][NextOp]_vars

----------------------------------------------------------------------------
(* The block yank and the cursor set                                       *)

\* The characters of line l that lie in the columns left..right.
ColumnText(d, l, left, right) ==
    [c \in 1..Max(0, Min(getLineLength(d, l), right + 1) - left) |-> d[l + 1][left + c]]

RECURSIVE BlockLines(_, _, _, _, _)
BlockLines(d, l, bottom, left, right) ==
    IF l > bottom THEN <<>>
    ELSE ColumnText(d, l, left, right) \o <<NL>> \o BlockLines(d, l + 1, bottom, left, right)

\* The text of the block spanned by two corners: the column text of its one
\* line, or of each of its lines followed by a line break.
BlockText(d, a, b) ==
    LET left == Min(a.character, b.character)
        right == Max(a.character, b.character)
    IN  IF a.line = b.line THEN ColumnText(d, a.line, left, right)
        ELSE BlockLines(d, Min(a.line, b.line), Max(a.line, b.line), left, right)

YankedBlock == ev.kind = "yankBlock"

\* C19: the block yank is flagged to run once for all cursors: whatever the
\* number of cursors in the set, one y on a block selection writes the
\* register exactly once, block-wise, with the column text of every line of
\* the block, leaves the document as it was, and ends in Normal mode with the
\* cursor set to the start position of the range (which the coordinator then
\* keeps on a character of its line).
C19_BlockYankOnce ==
    YankedBlock =>
        /\ ~ runsOnceForEveryCursor(ev.op)
        /\ vimState.registerWrites = ev.before.registerWrites + 1
        /\ vimState.register.registerMode = BlockWise
        /\ vimState.register.text = BlockText(ev.before.document, ev.start, ev.stop)
        /\ vimState.document = ev.before.document
        /\ vimState.currentMode = Normal
        /\ ev.ran.cursorStopPosition = ev.start
        /\ vimState.cursorStopPosition =
              keepCursorInBounds(vimState.document, Normal, ev.start)
        /\ ev.queue = <<>>

\* Three cursors, a block of three ragged lines whose start corner is right
\* of its stop corner: one register write with all three column texts.
C19_Witness ==
    /\ YankedBlock
    /\ Len(ev.cursors) = MaxCursors
    /\ ev.start = Pos(0, 1) /\ ev.stop = Pos(2, 0)
    /\ vimState.register.text = <<" ", "a", NL, "b", NL, "c", "d", NL>>
    /\ vimState.registerWrites = 1

\* A block on one line: the register holds the column text without a break.
C19_WitnessOneLine ==
    /\ YankedBlock
    /\ Len(ev.cursors) > 1
    /\ ev.start = Pos(2, 0) /\ ev.stop = Pos(2, 1)
    /\ vimState.register.text = <<"b", "c">>
    /\ vimState.cursorStopPosition = Pos(2, 0)

----------------------------------------------------------------------------
(* Transformations queued by a per-cursor run                              *)

CursorRun == ev.kind = "cursorRun"

\* C20: every transformation queued by an operator during a per-cursor run
\* records the index of the cursor that produced it, the deleteRange of a
\* delete and the edits queued through a delegate operator included.
C20_CursorIndexRecorded ==
    CursorRun =>
        \A i \in 1..Len(ev.queue) : ev.queue[i].cursorIndex = ev.index

\* What the operators do record: the insertText queued by the doubled change
\* carries the index; every deleteRange is queued without one.
C20_OnlyInsertTextIndexed ==
    CursorRun =>
        \A i \in 1..Len(ev.queue) :
            ev.queue[i].cursorIndex =
                IF ev.queue[i].type = "insertText" THEN ev.index ELSE NoCursorIndex

\* The doubled change at the second cursor: a deleteRange without index
\* followed by an insertText with index 1.
C20_WitnessChangeLines ==
    /\ CursorRun
    /\ ev.op = "ChangeOperator" /\ ev.count > 0 /\ ev.index = 1
    /\ Len(ev.queue) = 2
    /\ ev.queue[1].type = "deleteRange" /\ ev.queue[1].cursorIndex = NoCursorIndex
    /\ ev.queue[2].type = "insertText" /\ ev.queue[2].cursorIndex = 1

----------------------------------------------------------------------------
(* Properties of operator runs on drawn ranges (SpecOp)                    *)

OperatorRan == ev.kind = "operator"

ChangeClass == {"ChangeOperator", "ChangeOperatorSVisual"}

\* The text of the whole lines first..last of d (zero-based, inclusive), each
\* line with the line break that ends it (the last line of d has none), and
\* the final line break removed.
LinesText(d, first, last) ==
    LET lines == JoinLines(SubSeq(d, first + 1, last + 1))
    IN  IF last = Len(d) - 1 /\ lines # <<>> /\ Last(lines) = NL
        THEN SubSeq(lines, 1, Len(lines) - 1)
        ELSE lines

\* text is the text of the whole lines first..last of d, a final line break
\* apart (the lines are first..last, an empty last line of d counted or not).
HoldsLinesText(text, d, first, last) ==
    text \in {JoinLines(SubSeq(d, first + 1, last + 1)), LinesText(d, first, last)}

\* The text of the span start..stop of d: line-wise the whole lines without
\* the final line break; character-wise from start through the character at
\* stop, the line break being the character at the position past a line's end.
SpanText(d, start, stop, lineWise) ==
    IF lineWise THEN LinesText(d, start.line, stop.line)
    ELSE SubSeq(JoinLines(d), getOffsetAt(d, start) + 1,
                Min(getOffsetAt(d, stop) + 1, Len(JoinLines(d))))

RanLineWise == effectiveRegisterMode(ev.before) = LineWise

\* C3 as stated: every operator run ends in Normal, the change-class
\* operators in Insert, and in no other mode.
C3_NormalOrInsertOnly ==
    OperatorRan =>
        vimState.currentMode = IF ev.op \in ChangeClass THEN Insert ELSE Normal

\* C3 amended: an operator run ends in Normal, the change-class operators in
\* Insert, and a yank run while a surround request is pending ends in
\* SurroundInputMode; no operator run ends in any other mode.
C3_ModeAfterOperator ==
    OperatorRan =>
        vimState.currentMode =
            IF ev.op \in ChangeClass THEN Insert
            ELSE IF ev.op = "YankOperator" /\ ev.before.surround THEN SurroundInputMode
            ELSE Normal

C3_Witness ==
    /\ OperatorRan
    /\ ev.op = "YankOperator"
    /\ ev.before.surround
    /\ ev.before.currentMode = Visual
    /\ vimState.currentMode = SurroundInputMode

\* C7: a yank or a delete run puts into the register exactly the text of the
\* operated span (character-wise start through the character at stop,
\* line-wise the whole lines without the final line break), so the two
\* store the same text for the same range.
C7_RegisterHoldsSpanText ==
    (OperatorRan /\ ev.op \in {"YankOperator", "DeleteOperator"} /\ ~ ev.before.surround)
        => vimState.register.text =
               SpanText(ev.before.document, ev.start, ev.stop, RanLineWise)

LinesBefore(d, l) == SubSeq(d, 1, l)

\* C8: a line-wise delete that ends on the last line and does not start on
\* line 0 also removes the line break before the first deleted line: the
\* buffer is exactly the lines above the range (no empty line is left), and
\* the register holds only the deleted lines' text.
C8_LineWiseDeleteToLastLine ==
    (/\ OperatorRan
     /\ ev.op = "DeleteOperator"
     /\ RanLineWise
     /\ ev.stop.line = getLineCount(ev.before.document) - 1
     /\ ev.start.line # 0)
        => /\ vimState.document = LinesBefore(ev.before.document, ev.start.line)
           /\ HoldsLinesText(vimState.register.text, ev.before.document,
                             ev.start.line, ev.stop.line)
           /\ ev.queue[1].start =
                  getLineEnd(ev.before.document, Pos(ev.start.line - 1, 0))

C8_Witness ==
    /\ OperatorRan
    /\ ev.op = "DeleteOperator"
    /\ RanLineWise
    /\ ev.before.document = << <<"a">>, <<>>, <<"b", "c">> >>
    /\ ev.start.line = 2
    /\ ev.stop.line = 2
    /\ vimState.document = << <<"a">>, <<>> >>
    /\ vimState.register.text = <<"b", "c">>

\* The end column of the delete is one past the end of its line: the range
\* handed in stops at the position past the last character.
EndsPastLine ==
    /\ ~ RanLineWise
    /\ ev.stop.character = getLineLength(ev.before.document, ev.stop.line)

\* C9: outside VisualBlock a delete whose exclusive end column is one past
\* the end of the line also removes that line's line break, the end of the
\* deleted range being the start of the following line; in VisualBlock the
\* end stays on its line and the line break is kept.
C9_DeleteTakesLineBreak ==
    (/\ ev.kind \in {"operator", "delete"}
     /\ ev.op = "DeleteOperator"
     /\ EndsPastLine
     /\ ev.stop.line < getLineCount(ev.before.document) - 1)
        => IF ev.before.currentMode # VisualBlock
           THEN /\ ev.queue[1].end = Pos(ev.stop.line + 1, 0)
                /\ getLineCount(vimState.document) =
                       getLineCount(ev.before.document)
                           - (ev.stop.line - ev.start.line) - 1
                /\ vimState.register.text =
                       getText(ev.before.document, ev.start, Pos(ev.stop.line + 1, 0))
           ELSE /\ ev.queue[1].end.line = ev.stop.line
                /\ getLineCount(vimState.document) =
                       getLineCount(ev.before.document)
                           - (ev.stop.line - ev.start.line)
                /\ vimState.register.text =
                       getText(ev.before.document, ev.start, ev.stop)

C9_Witness ==
    /\ ev.kind = "operator"
    /\ ev.op = "DeleteOperator"
    /\ ev.before.currentMode = Visual
    /\ ev.before.document = << <<"a">>, <<>>, <<"b", "c">> >>
    /\ ev.start = Pos(0, 0)
    /\ ev.stop = Pos(0, 1)
    /\ vimState.document = << <<>>, <<"b", "c">> >>
    /\ vimState.register.text = <<"a", NL>>

C9_WitnessVisualBlock ==
    /\ ev.kind = "delete"
    /\ ev.before.currentMode = VisualBlock
    /\ ev.before.document = << <<"a">>, <<>>, <<"b", "c">> >>
    /\ ev.start = Pos(0, 0)
    /\ ev.stop = Pos(0, 1)
    /\ vimState.document = << <<>>, <<>>, <<"b", "c">> >>

----------------------------------------------------------------------------
(* The editor under keys: Normal mode with nothing pending on one of two   *)
(* documents, then one key event per step.                                 *)

\* Five lines, one indented, one empty.
DocFive == << <<"a">>, <<"b">>, <<" ", "c">>, <<>>, <<"d", "e">> >>

\* A parenthesised and a quoted string, each followed by a character.
DocPairs == << <<"(", "a", ")", "b">>, <<"\"", "c", "\"", "d">> >>

\* A text that ends with a line break: the last line is empty.
DocTail == << <<"a", "b">>, <<>> >>

NormalPositions(d) ==
    {p \in allPositions(d) : p.character < Max(1, getLineLength(d, p.line))}

Init ==
    /\ \E d \in {DocFive, DocPairs, DocTail} : \E p \in NormalPositions(d) :
          vimState = NewVimState(d, Normal, p, p, AscertainFromCurrentMode, FALSE,
                                 IF d = DocFive THEN Pos(1, 0) ELSE NoPosition)
    /\ ev = NoEvent(vimState)
    /\ keysHandled = 0

\* Keys whose handling lies outside the modelled catalog are not typed: text
\* in Insert mode, motions and operators on a block selection, a register
\* prefix or sentence motion, a visual command under a pending operator, the
\* visual-mode indent and outdent, and digits beyond MaxCount.
KeyInScope(vs, key) ==
    LET rs == vs.recordedState
        started == Len(rs.actionKeys) > 0
    IN  \/ key \in EscKeys
        \/ /\ vs.currentMode \in {Normal, Visual, VisualLine}
           /\ key \in {"(", "\""} => started
           /\ (key \in {">", "<"} /\ isVisualMode(vs.currentMode)) => started
           /\ (key \in {"v", "V", "<C-v>"} /\ operator(rs) # "") => started
           /\ (key \in Digits /\ ~ started) => rs.count * 10 + DigitValue(key) <= MaxCount
        \/ /\ vs.currentMode = VisualBlock
           /\ key \in {"v", "V", "<C-v>"}

HandleKey ==
    /\ keysHandled < MaxKeys
    /\ \E key \in Keys :
          /\ KeyInScope(vimState, key)
          /\ \E out \in {handleKeyEvent(vimState, key)} :
                /\ vimState' = out.vimState
                /\ ev' = [kind |-> "key", key |-> key, op |-> out.op,
                          repeat |-> out.repeat, count |-> out.count,
                          start |-> out.start, stop |-> out.stop,
                          motion |-> out.motion, failed |-> out.failed,
                          error |-> out.error, queue |-> out.queue,
                          result |-> out.result, before |-> vimState]
    /\ keysHandled' = keysHandled + 1

Next == HandleKey

Spec == Init /\ [][Next]_vars

----------------------------------------------------------------------------
(* Properties of key events (Spec)                                         *)

KeyEvent == ev.kind = "key"

PendingOperator(vs) == operator(vs.recordedState)

NothingPending(vs) == vs.recordedState = NewRecordedState

BufferUnchanged == vimState.document = ev.before.document

CursorUnchanged ==
    /\ vimState.cursorStopPosition = ev.before.cursorStopPosition
    /\ vimState.cursorStartPosition = ev.before.cursorStartPosition

RegistersUnchanged ==
    /\ vimState.register = ev.before.register
    /\ vimState.registerWrites = ev.before.registerWrites

\* The key completes a text object under a pending operator and yields a
\* failed range.
FailedRange ==
    /\ KeyEvent
    /\ PendingOperator(ev.before) # ""
    /\ ev.failed

\* The key completes a( in a buffer without parentheses, or an uncounted a"
\* with no double quote at or after the cursor on its line, under a pending
\* operator.  (A counted quote object is tried again from the line that
\* follows, so it can find its quotes there.)
NoTextObjectTarget ==
    /\ KeyEvent
    /\ PendingOperator(ev.before) # ""
    /\ ev.before.recordedState.actionKeys = <<"a">>
    /\ \/ /\ ev.key = "("
          /\ \A i \in 1..Len(JoinLines(ev.before.document)) :
                JoinLines(ev.before.document)[i] \notin {"(", ")"}
       \/ /\ ev.key = "\""
          /\ ev.before.recordedState.count = 0
          /\ LET p == ev.before.cursorStopPosition
                 text == ev.before.document[p.line + 1]
             IN  \A i \in (p.character + 1)..Len(text) : text[i] # "\""

\* C1: when the motion or text object typed under a pending operator yields
\* a failed range (a( without parentheses, a" with the cursor after the
\* quoted string), the operator is not run: buffer, cursor and registers are
\* unchanged and the mode is Normal, also when the operator is c.
C1_FailedRangeAbandonsOperator ==
    (FailedRange \/ NoTextObjectTarget)
        => /\ ev.op = ""
           /\ BufferUnchanged
           /\ CursorUnchanged
           /\ RegistersUnchanged
           /\ vimState.currentMode = Normal
           /\ NothingPending(vimState)

C1_Witness ==
    /\ FailedRange
    /\ NoTextObjectTarget
    /\ PendingOperator(ev.before) = "ChangeOperator"
    /\ ev.key = "\""
    /\ ev.before.document = DocPairs
    /\ ev.before.cursorStopPosition = Pos(1, 3)
    /\ vimState.currentMode = Normal

\* C2: the cancel key (<Esc> or <C-[>) leaves Normal mode with the command
\* in progress discarded (count, pending operator, consumed actions and keys
\* typed so far) and the buffer as it was; pressed in Normal mode with
\* nothing pending it changes neither buffer nor cursor.
C2_EscapeReturnsToNormal ==
    (KeyEvent /\ ev.key \in EscKeys)
        => /\ vimState.currentMode = Normal
           /\ NothingPending(vimState)
           /\ ev.op = ""
           /\ BufferUnchanged
           /\ RegistersUnchanged
           /\ (ev.before.currentMode = Normal /\ NothingPending(ev.before))
                 => CursorUnchanged

C2_Witness ==
    /\ KeyEvent
    /\ ev.key \in EscKeys
    /\ PendingOperator(ev.before) = "DeleteOperator"
    /\ ev.before.recordedState.count = 3
    /\ vimState.currentMode = Normal
    /\ NothingPending(vimState)

VisualKeys == {"v", "V", "<C-v>"}

VisualKeyMode(key) ==
    CASE key = "v" -> Visual
      [] key = "V" -> VisualLine
      [] key = "<C-v>" -> VisualBlock

\* C4: pressed in a visual mode, the activation key of that mode returns to
\* Normal and the activation key of another visual mode switches to it.
C4_VisualActivationKeys ==
    (/\ KeyEvent
     /\ ev.key \in VisualKeys
     /\ isVisualMode(ev.before.currentMode)
     /\ ev.before.recordedState.actionKeys = <<>>)
        => vimState.currentMode =
               IF VisualKeyMode(ev.key) = ev.before.currentMode THEN Normal
               ELSE VisualKeyMode(ev.key)

C4_Witness ==
    /\ KeyEvent
    /\ ev.key = "v"
    /\ ev.before.currentMode = Visual
    /\ vimState.currentMode = Normal

\* The buffer d without the lines first..last (zero-based, inclusive), or
\* with one line in their place; a buffer always keeps one line.
WithoutLines(d, first, last) ==
    IF first = 0 /\ last = Len(d) - 1 THEN << <<>> >>
    ELSE SubSeq(d, 1, first) \o SubSeq(d, last + 2, Len(d))

WithLinesReplaced(d, first, last, line) ==
    SubSeq(d, 1, first) \o <<line>> \o SubSeq(d, last + 2, Len(d))

LineIndent(d, l) == SubSeq(d[l + 1], 1, getFirstLineNonBlankChar(d, Pos(l, 0)).character)

\* What an operator applied line-wise to the whole lines first..last of the
\* buffer before the key leaves: the lines deleted, yanked, replaced by one
\* line to type in, or shifted.
AppliedToWholeLines(first, last, newLine) ==
    LET d == ev.before.document
        yanked == /\ HoldsLinesText(vimState.register.text, d, first, last)
                  /\ vimState.register.registerMode = LineWise
    IN  CASE ev.op = "DeleteOperator" ->
                /\ yanked
                /\ vimState.document = WithoutLines(d, first, last)
                /\ vimState.currentMode = Normal
          [] ev.op = "YankOperator" ->
                /\ yanked
                /\ BufferUnchanged
                /\ CursorUnchanged
          [] ev.op = "ChangeOperator" ->
                /\ yanked
                /\ vimState.document = WithLinesReplaced(d, first, last, newLine)
                /\ vimState.currentMode = Insert
          [] ev.op = "IndentOperator" ->
                /\ vimState.document = indentLines(d, first, last)
                /\ RegistersUnchanged
          [] ev.op = "OutdentOperator" ->
                /\ vimState.document = outdentLines(d, first, last)
                /\ RegistersUnchanged

DoubledRun == KeyEvent /\ ev.repeat

CursorLine == ev.before.cursorStopPosition.line

LastCountedLine ==
    Min(CursorLine + Max(1, ev.count) - 1, getLineCount(ev.before.document) - 1)

\* C5: the doubled form of an operator with count N (unset: 1) at cursor line
\* L applies the operator line-wise to the whole lines L..L+N-1, clamped to
\* the last line; after dd the cursor is on line L, or on the last line left.
C5_DoubledOperatorLines ==
    DoubledRun
        => /\ AppliedToWholeLines(CursorLine, LastCountedLine,
                                  LineIndent(ev.before.document, CursorLine))
           /\ ev.op = "DeleteOperator"
                 => vimState.cursorStopPosition.line =
                        Min(CursorLine, getLineCount(vimState.document) - 1)

C5_Witness ==
    /\ DoubledRun
    /\ ev.op = "DeleteOperator"
    /\ ev.count = 3
    /\ ev.before.document = DocFive
    /\ CursorLine = 3
    /\ vimState.document = << <<"a">>, <<"b">>, <<" ", "c">> >>
    /\ vimState.cursorStopPosition.line = 2

\* The most recent action of the command in progress that is not a count.
LastNonCountAction(vs) ==
    LET nonCount == SelectSeq(vs.recordedState.actionsRun,
                              LAMBDA x : x.name # "CommandNumber")
    IN  IF Len(nonCount) = 0 THEN [name |-> "", kind |-> "none", keysPressed |-> <<"">>]
        ELSE Last(nonCount)

\* The key alone is the last key of the most recent non-count action, that
\* action is an operator, and the mode is one of the operator's modes.
DoubledKey ==
    /\ ev.before.recordedState.actionKeys = <<>>
    /\ LastNonCountAction(ev.before).kind = "operator"
    /\ Last(LastNonCountAction(ev.before).keysPressed) = ev.key
    /\ ev.before.currentMode \in OperatorModes(LastNonCountAction(ev.before).name)

RECURSIVE typeKeys(_, _)
typeKeys(vs, keys) ==
    IF Len(keys) = 0 THEN vs
    ELSE typeKeys(handleKeyEvent(vs, Head(keys)).vimState, Tail(keys))

\* The effect of the keys typed: everything but the record of the command.
Effect(vs) == [vs EXCEPT !.recordedState = NewRecordedState]

\* The command in progress is an operator followed by one count digit.
OperatorThenCount ==
    /\ Len(ev.before.recordedState.actionsRun) = 2
    /\ ev.before.recordedState.actionsRun[1].kind = "operator"
    /\ ev.before.recordedState.actionsRun[2].name = "CommandNumber"

\* C6: a key is taken as the doubled form of operator X exactly when it is a
\* single key equal to the last key of the most recent non-count action of
\* the command in progress, that action is X and the mode is one of X's
\* modes; a count between the two operator keys does not prevent it, and the
\* effect is that of the count typed first (d2d as 2dd).
C6_DoubledFormRecognised ==
    (KeyEvent /\ ev.key \notin EscKeys)
        => /\ ev.repeat <=> DoubledKey
           /\ ev.repeat => ev.op = LastNonCountAction(ev.before).name
           /\ (ev.repeat /\ OperatorThenCount)
                 => Effect(vimState) =
                        Effect(typeKeys(resetRecordedState(ev.before),
                                   <<ev.before.recordedState.actionsRun[2].keysPressed[1],
                                     ev.key, ev.key>>))

C6_Witness ==
    /\ DoubledRun
    /\ OperatorThenCount
    /\ ev.key = "d"
    /\ ev.count = 2
    /\ ev.before.document = DocFive
    /\ CursorLine = 2
    /\ vimState.document = << <<"a">>, <<"b">>, <<"d", "e">> >>

\* The motions that set the line-wise register mode: j, k, +, -, <Enter>,
\* 'mark, G.
LineWiseMotions ==
    {"MoveDown", "MoveUp", "MoveDownNonBlank", "MoveUpNonBlank",
     "MoveNextLineNonBlank", "MarkMovementBOL", "MoveNonBlankLast"}

\* The key is a motion completing a pending operator, which has run.
OperatorOverMotion ==
    /\ KeyEvent
    /\ ev.op # ""
    /\ ~ ev.repeat
    /\ ev.motion # ""
    /\ ev.before.currentMode = Normal

\* C10: under a pending operator the motions j, k, +, -, <Enter>, 'mark and
\* G make the operation line-wise, the operator acting on every whole line
\* between the cursor line and the target line, whatever the cursor column;
\* a motion that sets no register mode is character-wise.
C10_LineWiseMotions ==
    /\ (OperatorOverMotion /\ ev.motion \in LineWiseMotions)
          => /\ CursorLine \in {ev.start.line, ev.stop.line}
             /\ AppliedToWholeLines(ev.start.line, ev.stop.line, <<>>)
    /\ (OperatorOverMotion /\ ev.motion \notin LineWiseMotions
          /\ ev.op \in {"DeleteOperator", "YankOperator", "ChangeOperator"})
          => vimState.register.registerMode = CharacterWise

\* C10 for the operators other than c, the key being handled with no register
\* mode left in force by an earlier motion that raised an error.
C10_ExceptChange ==
    (ev.op # "ChangeOperator"
        /\ ev.before.currentRegisterMode = AscertainFromCurrentMode)
        => C10_LineWiseMotions

\* The register mode of a selection: character-wise in Visual, line-wise in
\* VisualLine, block-wise in VisualBlock.
SelectionRegisterMode(m) ==
    IF m = VisualLine THEN LineWise ELSE IF m = VisualBlock THEN BlockWise ELSE CharacterWise

\* The key runs a yank or a delete on the selection of a visual mode.
OperatorOnSelection ==
    /\ KeyEvent
    /\ ev.op \in {"YankOperator", "DeleteOperator"}
    /\ isVisualMode(ev.before.currentMode)

----------------------------------------------------------------------------
(* Motions typed after a prefix: the state is the one a fresh document is  *)
(* in after an optional operator or v and an optional count were typed,    *)
(* the step is one key event.                                              *)

\* Three nested pairs of parentheses around "foo".
DocNested ==
    << <<" ", "b", "(", "l", "(", "b", "a", "z", "(", "f", "o", "o", ")", "b", "a", "z", ")", "a", ")", "h", " ">> >>

\* Two quoted strings on a line.
DocQuotes == << <<"\"", "a", "\"", " ", "\"", "b", "\"", "c">> >>

MotionDocs == {DocNested, DocQuotes, DocFive}

\* What is typed before the motion: an operator or v, then a count.
MotionPrefixes ==
    {op \o n : op \in {<<>>, <<"c">>, <<"d">>, <<"y">>, <<"v">>},
               n \in {<<>>, <<"2">>, <<"3">>}}

MotionKeys ==
    {"i", "a", "(", ")", "\"", "h", "l", "<left>", "<right>", "j", "k", "0", "|", "g", "G"}

\* The whichwrap settings: none, the one of the line wrapping tests, and one
\* that lists a key of each direction.  A setting other than none is combined
\* with the document of several lines and the prefixes that have no count.
WrapSettings == {{}, {"h", "l", "<", ">", "[", "]"}, {"h", ">"}}

MaxMotionKeys == 2

InitMotion ==
    /\ \E d \in MotionDocs : \E p \in NormalPositions(d) : \E prefix \in MotionPrefixes :
       \E w \in WrapSettings :
          /\ w # {} => d = DocFive /\ prefix \in {<<>>, <<"d">>, <<"v">>}
          /\ vimState = [NewVimState(d, Normal, p, p, AscertainFromCurrentMode,
                                     FALSE, NoPosition) EXCEPT !.whichwrap = w]
          /\ ev = [kind |-> "none", prefix |-> prefix, before |-> vimState]
    /\ keysHandled = 0

\* One key event, as in HandleKey; prefix holds the keys of the prefix that
\* are still to be typed.
KeyStep(key, prefix) ==
    \E out \in {handleKeyEvent(vimState, key)} :
       /\ vimState' = out.vimState
       /\ ev' = [kind |-> IF ev.prefix # <<>> THEN "prefix" ELSE "key",
                 key |-> key, op |-> out.op,
                 repeat |-> out.repeat, count |-> out.count,
                 start |-> out.start, stop |-> out.stop,
                 motion |-> out.motion, failed |-> out.failed,
                 error |-> out.error, queue |-> out.queue,
                 result |-> out.result, prefix |-> prefix, before |-> vimState]

\* Text typed in Insert mode, the sentence motions, the register prefix and
\* the other commands that begin with g lie outside the modelled catalog, and
\* so does an operator over a range that ends beyond the last line.  A count
\* takes one 0 at most, and is then given to a motion that takes it as a line
\* or column number.
MotionKeyInScope(vs, key) ==
    LET rs == vs.recordedState
    IN  /\ vs.currentMode \in {Normal, Visual}
        /\ key \in {"(", ")", "\""} => Len(rs.actionKeys) > 0
        /\ rs.actionKeys = <<"g">> => key = "g"
        /\ (key = "g" /\ operator(rs) # "") => rs.count <= getLineCount(vs.document)
        /\ (key = "0" /\ rs.actionKeys = <<>>) => rs.count <= MaxCount
        /\ rs.count > MaxCount => key \in {"|", "g", "G"}

\* The next key of the prefix, then up to MaxMotionKeys further keys.
HandleMotionKey ==
    /\ ev.prefix # <<>> \/ keysHandled < MaxMotionKeys
    /\ \E key \in (IF ev.prefix # <<>> THEN {Head(ev.prefix)} ELSE MotionKeys) :
          /\ ev.prefix = <<>> => MotionKeyInScope(vimState, key)
          /\ KeyStep(key, IF ev.prefix # <<>> THEN Tail(ev.prefix) ELSE <<>>)
    /\ keysHandled' = IF ev.prefix # <<>> THEN keysHandled ELSE keysHandled + 1

NextMotion == HandleMotionKey

SpecMotion == InitMotion /\ [][NextMotion]_vars

----------------------------------------------------------------------------
(* Properties of counted motions (SpecMotion)                              *)

\* The catalog entry of the motion the key event ran, with the keys typed.
MotionRan ==
    [Catalog[CHOOSE i \in 1..Len(Catalog) : Catalog[i].name = ev.motion]
        EXCEPT !.keysPressed = Append(ev.before.recordedState.actionKeys, ev.key)]

\* The state the motion ran in: the key event has recorded the action.
MotionState ==
    [ev.before EXCEPT !.cursorsInitialState =
                          [start |-> ev.before.cursorStartPosition,
                           stop |-> ev.before.cursorStopPosition],
                      !.recordedState.actionKeys = <<>>,
                      !.recordedState.actionsRun =
                          Append(@, [name |-> MotionRan.name, kind |-> MotionRan.kind,
                                     keysPressed |-> MotionRan.keysPressed])]

\* The motions that are run by BaseMovement.execActionWithCount.
LoopedMotions ==
    {"MoveDown", "MoveUp", "MoveLeft", "MoveLeftArrow", "MoveRight", "MoveRightArrow",
     "MoveLineBegin"} \cup BracketObjects \cup QuoteObjects

\* The k-th of n single applications of the motion a, the first at position
\* in state vs, each later one where the one before it ended.
RECURSIVE Continued(_, _, _, _, _, _)
Continued(a, hasOperator, prev, i, n, k) ==
    LET next(r) == Continued(a, hasOperator, r, i + 1, n, k)
    IN  IF i = k THEN prev
        ELSE next(createMovementResult(
                      a,
                      IF prev.result.kind = "Position" \/ a.name \in BracketObjects
                      THEN prev.result.stop
                      ELSE getRightThroughLineBreaks(prev.vimState.document,
                                                     prev.result.stop, FALSE),
                      prev.vimState, hasOperator, i + 1 = n))

Iteration(a, position, vs, n, k) ==
    LET hasOperator == operator(vs.recordedState) # ""
        from(first) == Continued(a, hasOperator, first, 1, n, k)
    IN  from(createMovementResult(a, position, vs, hasOperator, n = 1))

CountTyped == clampCount(ev.before.recordedState.count)

NthResult(k) ==
    Iteration(MotionRan, ev.before.cursorStopPosition, MotionState, CountTyped, k).result

\* A key event ran a looped motion and each of its iterations found a range.
CountedMotion ==
    /\ KeyEvent
    /\ ev.motion \in LoopedMotions
    /\ \A k \in 1..CountTyped : NthResult(k).kind # "VimError" /\ ~ NthResult(k).failed

\* The pairs of parentheses of DocNested, innermost first, as columns.
NestedPairs == << <<8, 12>>, <<4, 16>>, <<2, 18>> >>

\* The pairs that enclose column c, innermost first.
Enclosing(c) == SelectSeq(NestedPairs, LAMBDA pr : pr[1] < c /\ c < pr[2])

\* An operator with count n was completed by a parenthesis object typed
\* strictly inside at least n pairs of DocNested, not on a parenthesis.
CountedParenObject ==
    /\ KeyEvent
    /\ ev.before.document = DocNested
    /\ ev.before.currentMode = Normal
    /\ ev.op \in {"ChangeOperator", "DeleteOperator", "YankOperator"}
    /\ ev.motion \in {"MoveIParentheses", "MoveIClosingParentheses",
                      "MoveAParentheses", "MoveAClosingParentheses"}
    /\ getCharAt(DocNested, ev.before.cursorStopPosition) \notin {"(", ")"}
    /\ CountTyped <= Len(Enclosing(ev.before.cursorStopPosition.character))

\* The part of DocNested the operator is to take: the n-th enclosing pair, or
\* what lies between its parentheses, as the columns [from, to).
NthPairSpan ==
    LET pr == Enclosing(ev.before.cursorStopPosition.character)[CountTyped]
    IN  IF includeSurrounding(ev.motion) THEN <<pr[1], pr[2] + 1>>
        ELSE <<pr[1] + 1, pr[2]>>

\* C12: a motion run with count N is applied N times, each iteration starting
\* where the one before ended; the resulting range of a concatenating motion
\* runs from the first iteration's start to the last iteration's stop, that
\* of an expanding motion (a bracket object) is the last iteration's range;
\* so an operator with count N and a parenthesis object takes the N-th
\* enclosing pair (a) or its contents (i).
C12_CountedMotionRange ==
    /\ CountedMotion
          => /\ ev.result.stop = NthResult(CountTyped).stop
             /\ ev.result.kind = "IMovement"
                   => ev.result.start = IF ev.motion \in BracketObjects
                                        THEN NthResult(CountTyped).start
                                        ELSE NthResult(1).start
    /\ CountedParenObject
          => /\ vimState.register.text
                   = SubSeq(DocNested[1], NthPairSpan[1] + 1, NthPairSpan[2])
             /\ ev.op # "YankOperator"
                   => vimState.document
                         = << SubSeq(DocNested[1], 1, NthPairSpan[1])
                                 \o SubSeq(DocNested[1], NthPairSpan[2] + 1,
                                           Len(DocNested[1])) >>

\* c3i) typed on the "o" of "foo" in DocNested: b(l(baz(foo)baz)a)h has become
\* b()h, in Insert mode with the cursor between the parentheses.
C12_Witness ==
    /\ CountedMotion
    /\ CountedParenObject
    /\ ev.op = "ChangeOperator"
    /\ ev.motion = "MoveIClosingParentheses"
    /\ CountTyped = 3
    /\ vimState.document = << <<" ", "b", "(", ")", "h", " ">> >>
    /\ vimState.currentMode = Insert
    /\ vimState.cursorStopPosition = Pos(0, 3)

\* d2a" on the first of two quoted strings: the range runs from the start of
\* the first string to the stop of the second.
C12_WitnessConcatenating ==
    /\ CountedMotion
    /\ ev.motion = "MoveADoubleQuotes"
    /\ CountTyped = 2
    /\ ev.op = "DeleteOperator"
    /\ ev.result.start = NthResult(1).start
    /\ NthResult(2).start # NthResult(1).start
    /\ ev.result.stop = NthResult(2).stop

\* The key 0 was typed with no key sequence under way.
ZeroTyped ==
    /\ KeyEvent
    /\ ev.key = "0"
    /\ ev.before.recordedState.actionKeys = <<>>

LineBeginEntry ==
    Catalog[CHOOSE i \in 1..Len(Catalog) : Catalog[i].name = "MoveLineBegin"]

\* C13: the key 0 runs the line begin motion only when no count is in
\* progress; with a count in progress the motion neither matches 0 nor is a
\* candidate for it, and 0 becomes the next digit of the count.
C13_ZeroIsDigitAfterCount ==
    /\ (KeyEvent /\ ev.motion = "MoveLineBegin") => ev.before.recordedState.count = 0
    /\ (ZeroTyped /\ ev.before.recordedState.count > 0)
          => /\ ~ doesActionApply(LineBeginEntry, ev.before, <<"0">>)
             /\ ~ couldActionApply(LineBeginEntry, ev.before, <<"0">>)
             /\ ev.motion = ""
             /\ vimState.recordedState.count = 10 * ev.before.recordedState.count
             /\ vimState.cursorStopPosition = ev.before.cursorStopPosition
             /\ Last(vimState.recordedState.actionsRun).name = "CommandNumber"
    /\ (ZeroTyped /\ ev.before.recordedState.count = 0) => ev.motion = "MoveLineBegin"

\* d 2 0 typed away from the line's first column: the count is 20, the cursor
\* has not moved and the operator is still pending.
C13_Witness ==
    /\ ZeroTyped
    /\ ev.before.recordedState.count = 2
    /\ ev.before.cursorStopPosition.character > 0
    /\ PendingOperator(vimState) = "DeleteOperator"
    /\ vimState.recordedState.count = 20
    /\ vimState.cursorStopPosition = ev.before.cursorStopPosition

\* 0 typed with no count in progress: the cursor is on the line's first column.
C13_WitnessLineBegin ==
    /\ ZeroTyped
    /\ ev.before.recordedState.count = 0
    /\ ev.before.cursorStopPosition.character > 0
    /\ ev.motion = "MoveLineBegin"
    /\ vimState.cursorStopPosition = Pos(ev.before.cursorStopPosition.line, 0)

\* The position lies inside the document: on one of its lines and not beyond
\* that line's end.
InDocument(d, p) ==
    /\ 0 <= p.line /\ p.line < getLineCount(d)
    /\ 0 <= p.character /\ p.character <= getLineLength(d, p.line)

\* A key event ran a motion that produced a position.
MotionProduced ==
    /\ KeyEvent
    /\ ev.motion # ""
    /\ ev.result # NoResult
    /\ ~ ev.failed

C14_WitnessFirst ==
    /\ MotionProduced
    /\ ev.motion = "MoveNonBlankFirst"
    /\ ev.before.recordedState.count = 3
    /\ getLineCount(ev.before.document) = 1
    /\ ev.result.stop.line = 2
    /\ vimState.cursorStopPosition.line = 0

\* 20G typed on a document of five lines: the cursor is on the last one.
C14_WitnessLast ==
    /\ MotionProduced
    /\ ev.motion = "MoveNonBlankLast"
    /\ ev.before.recordedState.count = 20
    /\ ev.before.cursorStopPosition.line = 0
    /\ getLineCount(ev.before.document) = 5
    /\ vimState.cursorStopPosition.line = 4

\* The last character of line l of d; column 0 on an empty line.
LastCharacter(d, l) == Pos(l, Max(0, getLineLength(d, l) - 1))

\* h, l or an arrow was typed in Normal mode with no operator pending and no
\* count.
PlainSideways ==
    /\ KeyEvent
    /\ ev.key \in {"h", "l", "<left>", "<right>"}
    /\ ev.before.currentMode = Normal
    /\ ev.before.recordedState = NewRecordedState

Leftward == ev.key \in {"h", "<left>"}

\* The cursor was where the key cannot move it within the line.
AtLineEdge ==
    IF Leftward THEN ev.before.cursorStopPosition.character = 0
    ELSE ev.before.cursorStopPosition
            = LastCharacter(ev.before.document, ev.before.cursorStopPosition.line)

\* whichwrap lists the key: h and l by their letter, the arrows as < and >.
WrapListed ==
    (CASE ev.key = "<left>" -> "<" [] ev.key = "<right>" -> ">" [] OTHER -> ev.key)
        \in ev.before.whichwrap

\* C15: in Normal mode, h and <left> at column 0 and l and <right> on the
\* last character of a line leave the cursor where it is when whichwrap does
\* not list the key; when it does they move the cursor to the last character
\* of the previous line and to the first character of the next line.
C15_WrapAtLineEdge ==
    (PlainSideways /\ AtLineEdge)
        => vimState.cursorStopPosition
              = IF ~ WrapListed THEN ev.before.cursorStopPosition
                ELSE IF Leftward
                THEN IF ev.before.cursorStopPosition.line = 0
                     THEN ev.before.cursorStopPosition
                     ELSE LastCharacter(ev.before.document,
                                        ev.before.cursorStopPosition.line - 1)
                ELSE IF ev.before.cursorStopPosition.line
                           = getLineCount(ev.before.document) - 1
                     THEN ev.before.cursorStopPosition
                     ELSE Pos(ev.before.cursorStopPosition.line + 1, 0)

\* <left> typed at the first column of a line below the first with whichwrap
\* listing "<": the cursor is on the last character of the line above.
C15_Witness ==
    /\ PlainSideways
    /\ AtLineEdge
    /\ WrapListed
    /\ ev.key = "<left>"
    /\ ev.before.cursorStopPosition = Pos(4, 0)
    /\ vimState.cursorStopPosition.line = 3

\* l typed on the last character of a line above the last, whichwrap listing
\* h and > only: the cursor stays.
C15_WitnessNoWrap ==
    /\ PlainSideways
    /\ AtLineEdge
    /\ ~ WrapListed
    /\ ev.before.whichwrap # {}
    /\ ev.key = "l"
    /\ ev.before.cursorStopPosition.line < getLineCount(ev.before.document) - 1
    /\ vimState.cursorStopPosition = ev.before.cursorStopPosition

\* l typed on the last character of a line with whichwrap listing it: the
\* cursor is on the first character of the next line.
C15_WitnessRight ==
    /\ PlainSideways
    /\ AtLineEdge
    /\ WrapListed
    /\ ev.key = "l"
    /\ ev.before.cursorStopPosition = Pos(2, 1)
    /\ vimState.cursorStopPosition = Pos(3, 0)

----------------------------------------------------------------------------
(* EasyMotion: a trigger command searches the document and labels each     *)
(* match with a marker; in the overlay mode the keys typed select a marker. *)
(* The state is the part of VimState the commands read and write; a step   *)
(* is the exec of one command.                                             *)

EasyMotionMode == "EasyMotionMode"

\* new EasyMotion(): no markers, nothing accumulated.
NewEasyMotion == [markers |-> <<>>, accumulation |-> <<>>, previousMode |-> Normal]

EasyDocs ==
    { << <<"a", "b", " ", "a", "b">>, <<" ", "a", "b">> >>,
      << <<"b", "a", "b", "a", "b">> >> }

\* The trigger classes that search for the two characters typed, and the two
\* that label the lines below and above the cursor.
EasyCommands ==
    {"Search", "FindForward", "FindBackward", "TilForward", "TilBackward",
     "DownLines", "UpLines"}

SearchStrings == {<<"a", "b">>, <<"b", "a">>, <<"b", " ">>, <<"x", "y">>}

\* The keys markers are named with; a name has two keys when there are more
\* matches than keys.
KeyTable == <<"j", "k">>

OverlayKeys == {"j", "k", "z"}

MaxEasyKeys == 3

\* EasyMotion.sortedSearch: the matches of the text in the document, from
\* min and up to max when given (NoPosition: not given).
RECURSIVE matchesFrom(_, _, _, _, _)
matchesFrom(d, search, offset, min, max) ==
    LET flat == JoinLines(d)
        p == positionAt(d, offset, 0)
        rest == matchesFrom(d, search, offset + 1, min, max)
    IN  IF offset + Len(search) > Len(flat) THEN <<>>
        ELSE IF /\ SubSeq(flat, offset + 1, offset + Len(search)) = search
                /\ min # NoPosition => ~ isBefore(p, min)
                /\ max # NoPosition => ~ isBefore(max, p)
             THEN <<[position |-> p, text |-> search]>> \o rest
             ELSE rest

sortedSearch(d, search, min, max) == matchesFrom(d, search, 0, min, max)

\* The first characters of the lines from min up to max, each moved to the
\* line's first non-blank character.
lineMatches(d, min, max) ==
    LET lines == SelectSeq([l \in 1..getLineCount(d) |-> l - 1],
                           LAMBDA l : /\ getLineLength(d, l) > 0
                                      /\ min # NoPosition => ~ isBefore(Pos(l, 0), min)
                                      /\ max # NoPosition => ~ isBefore(max, Pos(l, 0)))
    IN  [i \in 1..Len(lines) |->
            [position |-> getFirstLineNonBlankChar(d, Pos(lines[i], 0)),
             text |-> <<d[lines[i] + 1][1]>>]]

getMatches(cmd, search, position, vs) ==
    CASE cmd = "Search" -> sortedSearch(vs.document, search, NoPosition, NoPosition)
      [] cmd \in {"FindForward", "TilForward"} ->
            sortedSearch(vs.document, search, position, NoPosition)
      [] cmd \in {"FindBackward", "TilBackward"} ->
            sortedSearch(vs.document, search, NoPosition, position)
      [] cmd = "DownLines" -> lineMatches(vs.document, position, NoPosition)
      [] cmd = "UpLines" -> lineMatches(vs.document, NoPosition, position)

getMatchPosition(cmd, match) ==
    CASE cmd = "TilForward" ->
            Pos(match.position.line, Max(0, match.position.character - 1))
      [] cmd = "TilBackward" ->
            Pos(match.position.line, Max(0, match.position.character + 1))
      [] OTHER -> match.position

\* EasyMotion.generateMarker: the marker of the index-th labelled match out of
\* length matches, none when the names have run out.
generateMarker(index, length, pos) ==
    LET K == Len(KeyTable)
    IN  IF length <= K THEN <<[name |-> <<KeyTable[index + 1]>>, position |-> pos]>>
        ELSE IF index < K * K
        THEN <<[name |-> <<KeyTable[(index \div K) + 1], KeyTable[(index % K) + 1]>>,
                position |-> pos]>>
        ELSE <<>>

\* processMarkers: a marker for every match but the one under the cursor.
RECURSIVE markersFrom(_, _, _, _, _)
markersFrom(cmd, matches, j, index, position) ==
    IF j > Len(matches) THEN <<>>
    ELSE IF matches[j].position = position
    THEN markersFrom(cmd, matches, j + 1, index, position)
    ELSE generateMarker(index, Len(matches), getMatchPosition(cmd, matches[j]))
            \o markersFrom(cmd, matches, j + 1, index + 1, position)

\* Faulty variant: the overlay is entered whatever the search found.
BaseEasyMotionCommand_exec_Enters(cmd, search, position, vs) == [vs EXCEPT !.easyMotion = [NewEasyMotion EXCEPT !.previousMode = vs.currentMode], !.currentMode = EasyMotionMode]

BaseEasyMotionCommand_exec(cmd, search, position, vs) ==
    LET entered(matches) ==
            IF Len(matches) = 0 THEN vs
            ELSE [vs EXCEPT !.easyMotion =
                                [markers |-> markersFrom(cmd, matches, 1, 0, position),
                                 accumulation |-> <<>>,
                                 previousMode |-> vs.currentMode],
                            !.currentMode = EasyMotionMode]
    IN  IF ~ vs.easymotion THEN vs
        ELSE entered(getMatches(cmd, search, position, vs))

\* Faulty variant: every marker is a candidate whatever was typed.
findMarkers_All(easyMotion, nail) == easyMotion.markers

\* EasyMotion.findMarkers: the markers whose name begins with nail.
findMarkers(easyMotion, nail) ==
    SelectSeq(easyMotion.markers,
              LAMBDA m : Len(m.name) >= Len(nail) /\ SubSeq(m.name, 1, Len(nail)) = nail)

\* Faulty variant: a key that selects no marker leaves the overlay active.
MoveEasyMotion_exec_Stays(key, vs) == [vs EXCEPT !.easyMotion.accumulation = Append(@, key)]

MoveEasyMotion_exec(key, vs) ==
    LET nail == Append(vs.easyMotion.accumulation, key)
        markers == findMarkers(vs.easyMotion, nail)
        vs1 == [vs EXCEPT !.easyMotion.accumulation = nail]
        vs2 == IF isVisualMode(vs.easyMotion.previousMode)
               THEN [vs1 EXCEPT !.cursorStartPosition = vs.lastVisualSelectionStart,
                                !.cursorStopPosition = vs.lastVisualSelectionEnd]
               ELSE vs1
    IN  IF Len(markers) = 1
        THEN [vs2 EXCEPT !.currentMode = vs.easyMotion.previousMode,
                         !.cursorStopPosition = markers[1].position]
        ELSE IF Len(markers) = 0
        THEN [vs2 EXCEPT !.currentMode = vs.easyMotion.previousMode]
        ELSE vs2

\* The end of a key event in a visual mode: the selection is recorded as the
\* last one.
recordSelection(vs) ==
    IF isVisualMode(vs.currentMode)
    THEN [vs EXCEPT !.lastVisualSelectionStart = vs.cursorStartPosition,
                    !.lastVisualSelectionEnd = vs.cursorStopPosition]
    ELSE vs

\* A document open in Normal mode or with a selection, the easymotion option
\* on or off; the selection is the one last recorded.
InitEasy ==
    /\ \E d \in EasyDocs : \E start, stop \in NormalPositions(d) :
       \E m \in {Normal, Visual, VisualLine} : \E option \in BOOLEAN :
          /\ m = Normal => start = stop
          /\ vimState = [document |-> d, currentMode |-> m,
                         cursorStartPosition |-> start, cursorStopPosition |-> stop,
                         lastVisualSelectionStart |-> start,
                         lastVisualSelectionEnd |-> stop,
                         easymotion |-> option, easyMotion |-> NewEasyMotion]
    /\ ev = [kind |-> "none", before |-> vimState]
    /\ keysHandled = 0

\* A trigger command is typed in a mode it is registered for.
TriggerEasyMotion ==
    /\ keysHandled < MaxEasyKeys
    /\ vimState.currentMode # EasyMotionMode
    /\ \E cmd \in EasyCommands : \E search \in SearchStrings :
          /\ cmd \in {"DownLines", "UpLines"} => search = <<"x", "y">>
          /\ vimState' = recordSelection(
                              BaseEasyMotionCommand_exec(cmd, search,
                                                         vimState.cursorStopPosition,
                                                         vimState))
          /\ ev' = [kind |-> "trigger", cmd |-> cmd,
                    matches |-> Len(getMatches(cmd, search, vimState.cursorStopPosition,
                                               vimState)),
                    before |-> vimState]
    /\ keysHandled' = keysHandled + 1

\* A key is typed in the overlay mode.
TypeOverlayKey ==
    /\ keysHandled < MaxEasyKeys
    /\ vimState.currentMode = EasyMotionMode
    /\ \E key \in OverlayKeys :
          /\ vimState' = recordSelection(MoveEasyMotion_exec(key, vimState))
          /\ ev' = [kind |-> "overlay", key |-> key, before |-> vimState]
    /\ keysHandled' = keysHandled + 1

NextEasy == TriggerEasyMotion \/ TypeOverlayKey

SpecEasy == InitEasy /\ [][NextEasy]_vars

----------------------------------------------------------------------------
(* Properties of the EasyMotion commands (SpecEasy)                        *)

\* C16: a trigger command enters the overlay mode only if the easymotion
\* option is on and its search returns at least one match; with no match the
\* mode, the cursor and the markers are left as they were.
C16_OverlayNeedsMatch ==
    ev.kind = "trigger"
        => /\ vimState.currentMode = EasyMotionMode
                 => ev.before.easymotion /\ ev.matches >= 1
           /\ ev.matches = 0 => vimState = ev.before

\* A search with no match was typed after an overlay had labelled matches:
\* the markers of that overlay are still there and the mode is the same.
C16_Witness ==
    /\ ev.kind = "trigger"
    /\ ev.before.easymotion
    /\ ev.matches = 0
    /\ ev.before.easyMotion.markers # <<>>
    /\ vimState.easyMotion.markers = ev.before.easyMotion.markers
    /\ vimState.currentMode = ev.before.currentMode

\* A search with matches entered the overlay.
C16_WitnessEntered ==
    /\ ev.kind = "trigger"
    /\ ev.matches >= 2
    /\ vimState.currentMode = EasyMotionMode
    /\ Len(vimState.easyMotion.markers) >= 2

\* The markers the typed keys select in the overlay.
Selected == findMarkers(ev.before.easyMotion, Append(ev.before.easyMotion.accumulation, ev.key))

\* C17: in the overlay mode each key is appended to the accumulated keys; if
\* exactly one marker's name starts with them the cursor is on that marker's
\* position and the mode is the one stored on entry; if none does the mode is
\* the one stored on entry and neither the cursor nor the selection's start
\* has moved; otherwise the overlay stays active, mode and cursor unchanged.
C17_OverlayKey ==
    ev.kind = "overlay"
        => /\ vimState.easyMotion.accumulation
                 = Append(ev.before.easyMotion.accumulation, ev.key)
           /\ Len(Selected) = 1
                 => /\ vimState.cursorStopPosition = Selected[1].position
                    /\ vimState.currentMode = ev.before.easyMotion.previousMode
           /\ Len(Selected) = 0
                 => /\ vimState.currentMode = ev.before.easyMotion.previousMode
                    /\ vimState.cursorStopPosition = ev.before.cursorStopPosition
                    /\ vimState.cursorStartPosition = ev.before.cursorStartPosition
           /\ Len(Selected) > 1
                 => /\ vimState.currentMode = EasyMotionMode
                    /\ vimState.cursorStopPosition = ev.before.cursorStopPosition

\* The second key of a two-key marker name, typed in an overlay entered from
\* Visual mode: the selection ends on the marker's position.
C17_Witness ==
    /\ ev.kind = "overlay"
    /\ Len(ev.before.easyMotion.accumulation) = 1
    /\ Len(Selected) = 1
    /\ ev.before.easyMotion.previousMode = Visual
    /\ vimState.currentMode = Visual
    /\ vimState.cursorStopPosition = Selected[1].position
    /\ vimState.cursorStopPosition # ev.before.cursorStopPosition

\* A key no marker's name continues with, typed in an overlay entered from a
\* line selection: Visual Line mode again, the selection as it was.
C17_WitnessNone ==
    /\ ev.kind = "overlay"
    /\ Len(Selected) = 0
    /\ ev.before.easyMotion.markers # <<>>
    /\ ev.before.easyMotion.previousMode = VisualLine
    /\ ev.before.cursorStartPosition # ev.before.cursorStopPosition
    /\ vimState.currentMode = VisualLine
    /\ vimState.cursorStopPosition = ev.before.cursorStopPosition

\* The first key of two-key names: the overlay stays.
C17_WitnessStays ==
    /\ ev.kind = "overlay"
    /\ Len(Selected) > 1
    /\ vimState.currentMode = EasyMotionMode

----------------------------------------------------------------------------
(* VimState.cursors: the list of cursors, each a range (start, stop).  The *)
(* state is the list and the isMultiCursor flag; a step assigns a list.    *)

\* The ranges cursors are made of: the two of the tests and one that shares
\* its start with the first and its stop with the second.
CursorRanges ==
    { [start |-> Pos(0, 0), stop |-> Pos(0, 1)], [start |-> Pos(1, 0), stop |-> Pos(1, 1)],
      [start |-> Pos(0, 0), stop |-> Pos(1, 1)] }

MaxAssignments == 2

\* The cursors of value without those that repeat an earlier one.
RECURSIVE dedupe(_)
dedupe(value) ==
    IF Len(value) = 0 THEN <<>>
    ELSE LET front == dedupe(SubSeq(value, 1, Len(value) - 1))
         IN  IF \E i \in 1..Len(front) : front[i] = Last(value) THEN front
             ELSE Append(front, Last(value))

\* Faulty variant: the list is stored as it is given.
VimState_setCursors_AsGiven(vs, value) == [vs EXCEPT !.cursors = value, !.isMultiCursor = Len(value) > 1]

\* set cursors(value)
VimState_setCursors(vs, value) ==
    [vs EXCEPT !.cursors = dedupe(value), !.isMultiCursor = Len(dedupe(value)) > 1]

\* new VimState(editor): one cursor at the document's begin.
InitCursors ==
    /\ vimState = [cursors |-> <<[start |-> Pos(0, 0), stop |-> Pos(0, 0)]>>,
                   isMultiCursor |-> FALSE]
    /\ ev = [kind |-> "none", before |-> vimState]
    /\ keysHandled = 0

AssignCursors ==
    /\ keysHandled < MaxAssignments
    /\ \E n \in 1..MaxCursors : \E value \in [1..n -> CursorRanges] :
          /\ vimState' = VimState_setCursors(vimState, value)
          /\ ev' = [kind |-> "cursors", value |-> value, before |-> vimState]
    /\ keysHandled' = keysHandled + 1

NextCursors == AssignCursors

SpecCursors == InitCursors /\ [][NextCursors]_vars

\* C18: after every assignment to cursors the list holds no two cursors with
\* the same start and stop, it holds every cursor that was assigned, and
\* isMultiCursor holds exactly when more than one cursor is left.
C18_CursorsDeduplicated ==
    ev.kind = "cursors"
        => /\ \A i, j \in 1..Len(vimState.cursors) :
                 vimState.cursors[i] = vimState.cursors[j] => i = j
           /\ {vimState.cursors[i] : i \in 1..Len(vimState.cursors)}
                 = {ev.value[i] : i \in 1..Len(ev.value)}
           /\ vimState.isMultiCursor <=> Len(vimState.cursors) > 1

\* Three cursors were assigned, two of them the same: two are left and
\* isMultiCursor holds.
C18_Witness ==
    /\ ev.kind = "cursors"
    /\ Len(ev.value) = 3
    /\ ev.value[1] = ev.value[3]
    /\ Len(vimState.cursors) = 2
    /\ vimState.isMultiCursor

\* The same cursor was assigned twice (vimState.test.ts, "de-dupes cursors"):
\* one is left and isMultiCursor does not hold.
C18_WitnessSingle ==
    /\ ev.kind = "cursors"
    /\ ev.value = << [start |-> Pos(0, 0), stop |-> Pos(0, 1)],
                     [start |-> Pos(0, 0), stop |-> Pos(0, 1)] >>
    /\ Len(vimState.cursors) = 1
    /\ ~ vimState.isMultiCursor

----------------------------------------------------------------------------
(* Dot-repeat: which operators become the last change (SpecDot).  The step *)
(* is one operator run on a range or selection, or a new selection.        *)

DotDocs == { << <<"a", "b">> >>, << <<" ", "a">>, <<"b">> >> }

\* The operator classes of the specification: deletes, yanks, changes, case
\* and shifts.
DotOperators ==
    {"DeleteOperator", "DeleteOperatorVisual", "DeleteOperatorXVisual",
     "YankOperator", "ShiftYankOperatorVisual", "YankVisualBlockMode",
     "ChangeOperator", "ChangeOperatorSVisual", "UpperCaseOperator",
     "IndentOperator", "OutdentOperator"}

YankClasses == {"YankOperator", "ShiftYankOperatorVisual", "YankVisualBlockMode"}

\* The modes property of each of these classes.
DotOperatorModes(name) ==
    CASE name = "DeleteOperatorVisual" -> {Visual, VisualLine}
      [] name = "DeleteOperatorXVisual" -> {Visual, VisualLine}
      [] name = "ShiftYankOperatorVisual" -> {Visual, VisualLine, VisualBlock}
      [] name = "YankVisualBlockMode" -> {VisualBlock}
      [] name = "UpperCaseOperator" -> {Visual, VisualLine}
      [] OTHER -> OperatorModes(name)

DotOperatorRun(name, vs, start, end) ==
    CASE name = "DeleteOperatorVisual" -> DeleteOperatorVisual_run(vs, start, end)
      [] name = "DeleteOperatorXVisual" -> DeleteOperatorXVisual_run(vs, start, end)
      [] name = "ShiftYankOperatorVisual" -> ShiftYankOperatorVisual_run(vs, start, end)
      [] name = "YankVisualBlockMode" -> YankVisualBlockMode_run(vs, start, end)
      [] name = "UpperCaseOperator" -> UpperCaseOperator_run(vs, start, end)
      [] OTHER -> OperatorRun(name, vs, start, end)

\* The recorder: a completed command whose action can be repeated with dot
\* becomes the last change; any other command leaves the last change alone.
recordLastChange(vs, name) ==
    IF canBeRepeatedWithDot(name)
    THEN [vs EXCEPT !.previousFullAction = [actions |-> <<name>>, count |-> 0],
                    !.currentRegisterMode = AscertainFromCurrentMode]
    ELSE [vs EXCEPT !.currentRegisterMode = AscertainFromCurrentMode]

MaxDotCommands == 2

InitDot ==
    /\ \E d \in DotDocs, m \in AllModes :
          \E start \in allPositions(d), stop \in allPositions(d) :
             LET regMode == IF m = VisualLine THEN LineWise ELSE AscertainFromCurrentMode
             IN  /\ OpRangeOK(d, m, start, stop, regMode)
                 /\ vimState = NewVimState(d, m, start, stop, regMode, FALSE, NoPosition)
    /\ ev = [kind |-> "none", before |-> vimState]
    /\ keysHandled = 0

\* One operator on the current range, then the recorder.
RunDotOperator(name) ==
    /\ keysHandled < MaxDotCommands
    /\ ev.kind \in {"none", "select"}
    /\ vimState.currentMode \in DotOperatorModes(name)
    /\ LET ran == DotOperatorRun(name, vimState, vimState.cursorStartPosition,
                                 vimState.cursorStopPosition)
           done == executeCommand(ran, vimState.cursorStopPosition)
       IN  /\ vimState' = recordLastChange(done, name)
           /\ ev' = [kind |-> "operator", op |-> name, before |-> vimState]
    /\ keysHandled' = keysHandled + 1

\* After a command: back to Normal mode, or a new selection begun at the
\* cursor (v, V or <C-v>).
Reselect(m) ==
    /\ keysHandled < MaxDotCommands
    /\ ev.kind = "operator"
    /\ LET d == vimState.document
           p == keepCursorInBounds(d, Normal, vimState.cursorStopPosition)
           start == IF m = VisualLine THEN getLineBegin(p) ELSE p
           stop == IF m = VisualLine THEN getLineEnd(d, p) ELSE p
           regMode == IF m = VisualLine \/ (m = Normal /\ getLineLength(d, p.line) = 0)
                      THEN LineWise ELSE AscertainFromCurrentMode
       IN  /\ vimState' = [vimState EXCEPT !.currentMode = m,
                                           !.cursorStartPosition = start,
                                           !.cursorStopPosition = stop,
                                           !.cursorsInitialState = [start |-> start, stop |-> start],
                                           !.currentRegisterMode = regMode]
           /\ ev' = [kind |-> "select", before |-> vimState]
    /\ UNCHANGED keysHandled

NextDot ==
    \/ \E name \in DotOperators : RunDotOperator(name)
    \/ \E m \in AllModes : Reselect(m)

SpecDot == InitDot /\ [][NextDot]_vars

DotOperatorRan == ev.kind = "operator"

\* C21: an operator becomes the dot-repeatable last change if and only if it
\* is not a yank: after y, visual Y and block-visual y the stored last change
\* is what it was, after every other operator it is that operator.
C21_LastChangeIffNotYank ==
    DotOperatorRan =>
        IF ev.op \in YankClasses
        THEN vimState.previousFullAction = ev.before.previousFullAction
        ELSE vimState.previousFullAction.actions = <<ev.op>>

\* What the flags give: every operator but y and block-visual y becomes the
\* last change, visual Y included.
C21_LastChangeByFlag ==
    DotOperatorRan =>
        IF ev.op \in {"YankOperator", "YankVisualBlockMode"}
        THEN vimState.previousFullAction = ev.before.previousFullAction
        ELSE vimState.previousFullAction.actions = <<ev.op>>

\* An operator that has changed the buffer is the last change, and no yank
\* changes the buffer.
C21_MutationRecorded ==
    DotOperatorRan =>
        /\ vimState.document # ev.before.document =>
               vimState.previousFullAction.actions = <<ev.op>>
        /\ ev.op \in YankClasses => vimState.document = ev.before.document

\* Y on a selection made after a delete: the buffer is as it was, and the
\* last change is now the yank.
C21_WitnessVisualY ==
    /\ DotOperatorRan
    /\ ev.op = "ShiftYankOperatorVisual"
    /\ ev.before.previousFullAction.actions = <<"DeleteOperator">>
    /\ vimState.document = ev.before.document
    /\ vimState.previousFullAction.actions = <<"ShiftYankOperatorVisual">>

\* y after a delete: the last change is still the delete.
C21_WitnessYank ==
    /\ DotOperatorRan
    /\ ev.op = "YankOperator"
    /\ ev.before.previousFullAction.actions = <<"DeleteOperator">>
    /\ vimState.previousFullAction.actions = <<"DeleteOperator">>

----------------------------------------------------------------------------
(* Words: w and iw alone, after an operator and with a count (SpecWord).   *)
(* The step is one key event.                                              *)

\* Lines of words, as in the dw tests: a word followed by words on its line,
\* by an indented line, by an empty line, by blanks only; and the indented
\* line of the cc tests.
WordDocs ==
    { << <<"a", "b", " ", "c", "d", " ", "e">> >>,
      << <<"a", "b", " ", "c", "d">>, <<" ", " ", "e">> >>,
      << <<"a", " ", "c", "d">>, <<>>, <<"e">> >>,
      << <<"a", "b", " ", " ">> >>,
      << <<"a", " ", "c">>, <<" ", " ">> >>,
      << <<"{">>, <<" ", " ", "i", " ", "a", ";">> >> }

WordPrefixes ==
    {<<>>, <<"d">>, <<"y">>, <<"c">>, <<"v">>, <<"2">>, <<"d", "2">>, <<"y", "2">>,
     <<"2", "y">>}

WordKeys == {"w", "i", "y", "c", "l", "j"}

MaxWordKeys == 2

InitWord ==
    /\ \E d \in WordDocs : \E p \in NormalPositions(d) : \E prefix \in WordPrefixes :
          /\ vimState = NewVimState(d, Normal, p, p, AscertainFromCurrentMode, FALSE,
                                    NoPosition)
          /\ ev = [kind |-> "none", prefix |-> prefix, before |-> vimState]
    /\ keysHandled = 0

\* Text typed in Insert mode and the other objects that begin with i lie
\* outside the keys of this specification.
WordKeyInScope(vs, key) ==
    /\ vs.currentMode \in {Normal, Visual}
    /\ vs.recordedState.actionKeys = <<"i">> => key = "w"

\* The next key of the prefix, then up to MaxWordKeys further keys.
HandleWordKey ==
    /\ ev.prefix # <<>> \/ keysHandled < MaxWordKeys
    /\ \E key \in (IF ev.prefix # <<>> THEN {Head(ev.prefix)} ELSE WordKeys) :
          /\ ev.prefix = <<>> => WordKeyInScope(vimState, key)
          /\ KeyStep(key, IF ev.prefix # <<>> THEN Tail(ev.prefix) ELSE <<>>)
    /\ keysHandled' = IF ev.prefix # <<>> THEN keysHandled ELSE keysHandled + 1

NextWord == HandleWordKey

SpecWord == InitWord /\ [][NextWord]_vars

\* The key event has run a yank that began in Normal mode with the cursor on
\* a character.
YankRan ==
    /\ ev.kind \in {"key", "prefix"}
    /\ ev.op = "YankOperator"
    /\ ev.before.currentMode = Normal
    /\ getLineLength(ev.before.document, ev.before.cursorStopPosition.line) > 0

\* C22: after a Normal-mode yank the cursor is at the start of the yanked
\* range if the motion was a text object, with or without a count, and at the
\* position it had before the command after any other motion and after yy.
C22_YankCursor ==
    YankRan =>
        vimState.cursorStopPosition =
            IF ev.motion \in TextObjectMovements THEN ev.start
            ELSE ev.before.cursorStopPosition

\* What the operator does: the cursor goes to the start of the range when the
\* text object is the second action of the command, which a count typed
\* before the operator or before the object prevents.
C22_YankCursorBySecondAction ==
    YankRan =>
        vimState.cursorStopPosition =
            IF /\ ev.motion \in TextObjectMovements
               /\ Len(ev.before.recordedState.actionsRun) = 1
            THEN ev.start
            ELSE ev.before.cursorStopPosition

\* y2iw on the second character of a word: the word and the blank after it
\* are yanked and the cursor has stayed where it was.
C22_WitnessCounted ==
    /\ YankRan
    /\ ev.motion = "SelectInnerWord"
    /\ Len(ev.before.recordedState.actionsRun) = 2
    /\ ev.before.cursorStopPosition = Pos(0, 1)
    /\ ev.start = Pos(0, 0)
    /\ vimState.register.text = <<"a", "b", " ">>
    /\ vimState.cursorStopPosition = Pos(0, 1)

\* yiw on the second character of a word: the cursor is on its first.
C22_WitnessInnerWord ==
    /\ YankRan
    /\ ev.motion = "SelectInnerWord"
    /\ Len(ev.before.recordedState.actionsRun) = 1
    /\ ev.before.cursorStopPosition = Pos(0, 1)
    /\ vimState.register.text = <<"a", "b">>
    /\ vimState.cursorStopPosition = Pos(0, 0)

\* The key event has run dw, without a count, from Normal mode with the cursor
\* on a character.
DwRan ==
    /\ ev.kind \in {"key", "prefix"}
    /\ ev.op = "DeleteOperator"
    /\ ev.motion = "MoveWordBegin"
    /\ Len(ev.before.recordedState.actionsRun) = 1
    /\ ev.before.currentMode = Normal
    /\ getLineLength(ev.before.document, ev.before.cursorStopPosition.line) > 0

\* The columns right of column c at which a word of the line begins.
WordStartsAfter(text, c) ==
    {x \in (c + 1)..(Len(text) - 1) :
        /\ text[x + 1] # " "
        /\ charClass(text[x + 1]) # charClass(text[x])}

\* The line without the text from column c up to the next word of the line,
\* or up to the end of the line if no word follows.
WithoutWord(text, c) ==
    LET next == WordStartsAfter(text, c)
    IN  IF next = {} THEN SubSeq(text, 1, c)
        ELSE LET x == CHOOSE y \in next : \A z \in next : y <= z
             IN  SubSeq(text, 1, c) \o SubSeq(text, x + 1, Len(text))

\* dw has changed the cursor's line only, to the line without the word.
DwDeletesWord ==
    LET p == ev.before.cursorStopPosition
        d == ev.before.document
    IN  vimState.document = [d EXCEPT ![p.line + 1] = WithoutWord(d[p.line + 1], p.character)]

\* C23 as stated: dw deletes from the cursor up to the start of the next word
\* of the line, or to the end of the line when no word follows, never the line
\* break nor text of other lines, and leaves the cursor where it was.
C23_DwColumnUnchanged ==
    DwRan =>
        /\ DwDeletesWord
        /\ vimState.cursorStopPosition = ev.before.cursorStopPosition

\* C23: dw deletes from the cursor up to the start of the next word of the
\* line, or to the end of the line when no word follows, never the line break
\* nor text of other lines; the cursor keeps its column unless the deletion
\* reached the end of the line, and is then on the last character left.
C23_DwWithinLine ==
    DwRan =>
        LET p == ev.before.cursorStopPosition
            left == Len(vimState.document[p.line + 1])
        IN  /\ DwDeletesWord
            /\ vimState.cursorStopPosition.line = p.line
            /\ vimState.cursorStopPosition.character =
                  IF p.character < left THEN p.character
                  ELSE IF left = 0 THEN 0 ELSE left - 1

\* dw on the last word of a line that an indented line follows: the word is
\* gone, both lines remain and the cursor is on the blank left of it.
C23_WitnessLastWord ==
    /\ DwRan
    /\ ev.before.document = << <<"a", "b", " ", "c", "d">>, <<" ", " ", "e">> >>
    /\ ev.before.cursorStopPosition = Pos(0, 3)
    /\ vimState.document = << <<"a", "b", " ">>, <<" ", " ", "e">> >>
    /\ vimState.cursorStopPosition = Pos(0, 2)

\* dw on the first word of a line: the next word is under the cursor.
C23_WitnessNextWord ==
    /\ DwRan
    /\ ev.before.cursorStopPosition = Pos(0, 0)
    /\ vimState.document = << <<"c", "d", " ", "e">> >>
    /\ vimState.cursorStopPosition = Pos(0, 0)

\* The key event has run cc, with or without a count, from Normal mode.
CcRan ==
    /\ ev.kind \in {"key", "prefix"}
    /\ ev.op = "ChangeOperator"
    /\ ev.repeat
    /\ ev.before.currentMode = Normal

\* The blanks a line begins with.
LeadingBlanks(text) ==
    LET n == CHOOSE k \in 0..Len(text) :
                /\ \A i \in 1..k : Blank(text[i])
                /\ k < Len(text) => ~ Blank(text[k + 1])
    IN  SubSeq(text, 1, n)

\* C26: the transformations queued by a key are applied in the order queued;
\* cc queues the deletion of the line's content before the insertion of the
\* indentation the line had, so that after cc the line holds exactly its
\* previous leading blanks, the lines taken by a count are gone, the other
\* lines are as before and the mode is Insert.
C26_ChangeLineKeepsIndent ==
    CcRan =>
        LET d == ev.before.document
            p == ev.before.cursorStopPosition
            count == Max(1, ev.before.recordedState.count)
            last == Min(Len(d) - 1, p.line + count - 1)
            indent == LeadingBlanks(d[p.line + 1])
            n == Len(ev.queue)
        IN  /\ n >= 1
            /\ ev.queue[n].type = "insertText"
            /\ ev.queue[n].text = indent
            /\ \A i \in 1..(n - 1) : ev.queue[i].type = "deleteRange"
            /\ Len(d[p.line + 1]) > 0 => n = 2
            /\ vimState.document =
                  applyTransformations([document |-> d, cursor |-> p], ev.queue).document
            /\ vimState.document =
                  SubSeq(d, 1, p.line) \o <<indent>> \o SubSeq(d, last + 2, Len(d))
            /\ vimState.currentMode = Insert

\* cc on the indented line of the test: the two blanks are left, the cursor
\* is behind them.
C26_WitnessIndented ==
    /\ CcRan
    /\ ev.before.document = << <<"{">>, <<" ", " ", "i", " ", "a", ";">> >>
    /\ ev.before.cursorStopPosition = Pos(1, 4)
    /\ Len(ev.queue) = 2
    /\ vimState.document = << <<"{">>, <<" ", " ">> >>
    /\ vimState.cursorStopPosition = Pos(1, 2)
    /\ vimState.currentMode = Insert

\* 2cc on a line that an indented line follows: one empty line is left.
C26_WitnessCounted ==
    /\ CcRan
    /\ ev.before.recordedState.count = 2
    /\ Len(ev.before.document) = 2
    /\ vimState.document = << <<>> >>

----------------------------------------------------------------------------
(* Search (src/src/state/searchState.ts): the ranges that match the search *)
(* string, the next match from a position, the match at a position; n, N   *)
(* and gn (SpecSearch).  The highlighting flag and the status-bar report   *)
(* are rendering and are left out.                                         *)

MAX_SEARCH_RANGES == 1000

\* The search strings are literals, or one character and a star: the
\* regular expression that matches any run of the character, the empty run
\* too.
isStar(search) == Len(search) = 2 /\ search[2] = "*"

\* The length of the run of c that begins at offset i of the text.
RECURSIVE runLength(_, _, _)
runLength(text, c, i) ==
    IF i < Len(text) /\ text[i + 1] = c THEN 1 + runLength(text, c, i + 1) ELSE 0

\* regex.exec with the g flag: the offset of the leftmost match at or after
\* lastIndex, -1 if there is none.
regexExec(text, search, lastIndex) ==
    IF isStar(search) THEN (IF lastIndex <= Len(text) THEN lastIndex ELSE 0 - 1)
    ELSE
    LET found == {i \in lastIndex..(Len(text) - Len(search)) :
                     SubSeq(text, i + 1, i + Len(search)) = search}
    IN  IF found = {} THEN 0 - 1 ELSE CHOOSE i \in found : \A j \in found : i <= j

\* result[0].length of the match found at the offset.
matchLength(text, search, index) ==
    IF isStar(search) THEN runLength(text, search[1], index) ELSE Len(search)

\* The offset of each line's first character.
RECURSIVE sumLineLengths(_, _)
sumLineLengths(d, l) ==
    IF l >= Len(d) THEN <<>>
    ELSE <<offsetOfLine(d, l)>> \o sumLineLengths(d, l + 1)

RECURSIVE absPosToPosition(_, _, _, _)
absPosToPosition(val, l, r, arr) ==
    LET mid == (l + r) \div 2
    IN  IF l = r - 1 THEN Pos(l, val - arr[mid + 1])
        ELSE IF arr[mid + 1] > val THEN absPosToPosition(val, l, mid, arr)
        ELSE absPosToPosition(val, mid, r, arr)

\* The body of the do-while loop, entered with the result of the last exec.
RECURSIVE matchLoop(_, _, _, _, _, _)
matchLoop(d, search, startPos, result, wrappedOver, ranges) ==
    LET text == JoinLines(d)
        arr == sumLineLengths(d, 0)
        wrapNow == result < 0 /\ ~ wrappedOver
        result1 == IF wrapNow THEN regexExec(text, search, 0) ELSE result
        wrapped1 == wrappedOver \/ wrapNow
        length == matchLength(text, search, result1)
        pushed == Append(ranges,
                         [start |-> absPosToPosition(result1, 0, Len(arr), arr),
                          end |-> absPosToPosition(result1 + length, 0, Len(arr), arr)])
        \* lastIndex is stepped over a match that is empty
        next == regexExec(text, search,
                          result1 + length + (IF length = 0 THEN 1 ELSE 0))
        wrapNext == next < 0 /\ ~ wrapped1
        result2 == IF wrapNext THEN regexExec(text, search, 0) ELSE next
        wrapped2 == wrapped1 \/ wrapNext
    IN  IF Len(ranges) >= MAX_SEARCH_RANGES THEN ranges
        ELSE IF result1 < 0 THEN ranges
        ELSE IF result2 >= 0 /\ ~ (wrapped2 /\ result2 >= startPos)
             THEN matchLoop(d, search, startPos, result2, wrapped2, pushed)
        ELSE pushed

\* Faulty variant: the ranges are left in the order the scan found them.
sortRanges_AsFound(ranges) == ranges

\* _matchRanges.sort: by start position.  The scan records no two ranges
\* with one start, so each range has its place: the number of ranges that
\* start before it.
sortRanges(ranges) ==
    LET n == Len(ranges)
        rank == [k \in 1..n |->
                    Cardinality({j \in 1..n : isBefore(ranges[j].start, ranges[k].start)})]
                \o <<>>
        at == [i \in 1..n |-> CHOOSE k \in 1..n : rank[k] = i - 1] \o <<>>
    IN  [i \in 1..n |-> ranges[at[i]]] \o <<>>

\* _recalculateSearchRanges when the search string is set: the scan starts
\* at the active end of the selection, wraps once and stops where it began.
recalculateSearchRanges(d, search, selection) ==
    IF search = <<>> THEN <<>>
    ELSE LET startPos == offsetOfLine(d, selection.line) + selection.character
         IN  sortRanges(matchLoop(d, search, startPos,
                                  regexExec(JoinLines(d), search, startPos), FALSE, <<>>))

\* new SearchState(direction, startPosition, searchString).
SearchState(d, direction, selection, search) ==
    [searchString |-> search, searchDirection |-> direction,
     matchRanges |-> recalculateSearchRanges(d, search, selection)]

NoMatch(position) ==
    [start |-> position, end |-> position, match |-> FALSE, index |-> 0 - 1]

MatchAt(ranges, index) ==
    [start |-> ranges[index + 1].start, end |-> ranges[index + 1].end,
     match |-> TRUE, index |-> index]

\* Faulty variant: a match that starts at the position itself is returned.
getNextSearchMatchRange_Inclusive(ss, startPosition, direction) ==
    LET ranges == ss.matchRanges
        after == {i \in 0..(Len(ranges) - 1) : isBeforeOrEqual(startPosition, ranges[i + 1].start)}
        before == {i \in 0..(Len(ranges) - 1) : isBeforeOrEqual(ranges[i + 1].start, startPosition)}
    IN  IF Len(ranges) = 0 THEN NoMatch(startPosition)
        ELSE IF direction * ss.searchDirection = Forward
             THEN IF after # {} THEN MatchAt(ranges, CHOOSE i \in after : \A j \in after : i <= j)
                  ELSE MatchAt(ranges, 0)
        ELSE IF before # {} THEN MatchAt(ranges, CHOOSE i \in before : \A j \in before : i >= j)
        ELSE MatchAt(ranges, Len(ranges) - 1)

\* The first range, in the order of matchRanges, that starts after the
\* position (forward) or the last that starts before it (backward); the first
\* or the last range when the loop finds none.
getNextSearchMatchRange(ss, startPosition, direction) ==
    LET ranges == ss.matchRanges
        after == {i \in 0..(Len(ranges) - 1) : isBefore(startPosition, ranges[i + 1].start)}
        before == {i \in 0..(Len(ranges) - 1) : isBefore(ranges[i + 1].start, startPosition)}
    IN  IF Len(ranges) = 0 THEN NoMatch(startPosition)
        ELSE IF direction * ss.searchDirection = Forward
             THEN IF after # {} THEN MatchAt(ranges, CHOOSE i \in after : \A j \in after : i <= j)
                  ELSE MatchAt(ranges, 0)
        ELSE IF before # {} THEN MatchAt(ranges, CHOOSE i \in before : \A j \in before : i >= j)
        ELSE MatchAt(ranges, Len(ranges) - 1)

getNextSearchMatchPosition(ss, startPosition, direction) ==
    LET r == getNextSearchMatchRange(ss, startPosition, direction)
    IN  [pos |-> r.start, match |-> r.match, index |-> r.index]

\* Faulty variant: the end of a range counts as part of it.
getSearchMatchRangeOf_EndIncluded(ss, pos) ==
    LET ranges == ss.matchRanges
        holding == {i \in 0..(Len(ranges) - 1) :
                       /\ isBeforeOrEqual(ranges[i + 1].start, pos)
                       /\ isBeforeOrEqual(pos, ranges[i + 1].end)}
    IN  IF holding = {} THEN NoMatch(pos)
        ELSE MatchAt(ranges, CHOOSE i \in holding : \A j \in holding : i <= j)

getSearchMatchRangeOf(ss, pos) ==
    LET ranges == ss.matchRanges
        holding == {i \in 0..(Len(ranges) - 1) :
                       /\ isBeforeOrEqual(ranges[i + 1].start, pos)
                       /\ isBefore(pos, ranges[i + 1].end)}
    IN  IF holding = {} THEN NoMatch(pos)
        ELSE MatchAt(ranges, CHOOSE i \in holding : \A j \in holding : i <= j)

\* n: from the position right of the cursor when that is the end of the line.
CommandNextSearchMatch_argument(d, position) ==
    IF getRight(d, position) = getLineEnd(d, position) THEN getRight(d, position)
    ELSE position

CommandNextSearchMatch_execAction(position, vs) ==
    LET ss == vs.searchState
    IN  IF ss.searchString = <<>> THEN position
        ELSE getNextSearchMatchPosition(
                 ss, CommandNextSearchMatch_argument(vs.document, position), 1).pos

CommandPreviousSearchMatch_execAction(position, vs) ==
    LET ss == vs.searchState
    IN  IF ss.searchString = <<>> THEN position
        ELSE getNextSearchMatchPosition(ss, position, 0 - 1).pos

\* gn: the match at the cursor, else the next match, becomes the selection
\* of Visual mode; without any match nothing changes.
CommandSelectNextLastSearchWord_result(vs) ==
    LET ss == vs.searchState
        here == getSearchMatchRangeOf(ss, vs.cursorStopPosition)
    IN  IF here.match THEN here
        ELSE getNextSearchMatchRange(ss, vs.cursorStopPosition, 1)

CommandSelectNextLastSearchWord_exec(vs) ==
    LET result == CommandSelectNextLastSearchWord_result(vs)
    IN  IF vs.searchState.searchString = <<>> \/ ~ result.match THEN vs
        ELSE [vs EXCEPT !.cursorStartPosition = result.start,
                        !.cursorStopPosition =
                            getLeftThroughLineBreaks(vs.document, result.end, TRUE),
                        !.currentMode = Visual]

\* The buffer of the gn tests in short, a line of overlapping matches, and
\* matches that end a line and follow an empty one.
SearchDocs ==
    { << <<"f">>, <<"a", "b", " ", "c">>, <<"a", "b">>, <<"a", "b">> >>,
      << <<"a", "a", "a", "b">> >>,
      << <<"a", "b", "b">>, <<>>, <<"b">> >> }

SearchStrings_n == {<<"a", "b">>, <<"a", "a">>, <<"b">>, <<"x">>}

InitSearch ==
    /\ \E d \in SearchDocs : \E p \in NormalPositions(d) :
          vimState = NewVimState(d, Normal, p, p, AscertainFromCurrentMode, FALSE,
                                 NoPosition)
    /\ ev = [kind |-> "none", position |-> NoPosition, direction |-> Forward,
             result |-> NoMatch(NoPosition), before |-> vimState]
    /\ keysHandled = 0

SearchEvent(kind, position, direction, result) ==
    [kind |-> kind, position |-> position, direction |-> direction,
     result |-> result, before |-> vimState]

\* / or ? with a search string, from Normal mode; the cursor goes to the
\* next match from where the search began.
CommandSearch(direction, search) ==
    /\ vimState.currentMode = Normal
    /\ LET ss == SearchState(vimState.document, direction, vimState.cursorStopPosition,
                             search)
           next == getNextSearchMatchRange(ss, vimState.cursorStopPosition, 1)
       IN  /\ vimState' = [vimState EXCEPT !.searchState = ss,
                                           !.cursorStartPosition = next.start,
                                           !.cursorStopPosition = next.start]
           /\ ev' = SearchEvent("search", vimState.cursorStopPosition, 1, next)
    /\ UNCHANGED keysHandled

CommandNextSearchMatch ==
    /\ vimState.currentMode = Normal
    /\ LET position == vimState.cursorStopPosition
           argument == CommandNextSearchMatch_argument(vimState.document, position)
           stop == CommandNextSearchMatch_execAction(position, vimState)
       IN  /\ vimState' = [vimState EXCEPT
                   !.cursorStartPosition =
                       keepCursorInBounds(vimState.document, Normal, stop),
                   !.cursorStopPosition =
                       keepCursorInBounds(vimState.document, Normal, stop)]
           /\ ev' = SearchEvent("n", argument, 1,
                                getNextSearchMatchRange(vimState.searchState, argument, 1))
    /\ UNCHANGED keysHandled

CommandPreviousSearchMatch ==
    /\ vimState.currentMode = Normal
    /\ LET position == vimState.cursorStopPosition
           stop == CommandPreviousSearchMatch_execAction(position, vimState)
       IN  /\ vimState' = [vimState EXCEPT
                   !.cursorStartPosition =
                       keepCursorInBounds(vimState.document, Normal, stop),
                   !.cursorStopPosition =
                       keepCursorInBounds(vimState.document, Normal, stop)]
           /\ ev' = SearchEvent("N", position, 0 - 1,
                                getNextSearchMatchRange(vimState.searchState, position,
                                                        0 - 1))
    /\ UNCHANGED keysHandled

CommandSelectNextLastSearchWord ==
    /\ vimState.currentMode = Normal
    /\ vimState' = CommandSelectNextLastSearchWord_exec(vimState)
    /\ ev' = SearchEvent("gn", vimState.cursorStopPosition, 1,
                         CommandSelectNextLastSearchWord_result(vimState))
    /\ UNCHANGED keysHandled

\* Any other motion, or Escape from the selection: the cursor is placed on a
\* character of the buffer in Normal mode.
PlaceCursor(p) ==
    /\ vimState' = [vimState EXCEPT !.currentMode = Normal,
                                    !.cursorStartPosition = p,
                                    !.cursorStopPosition = p]
    /\ ev' = SearchEvent("place", p, 1, NoMatch(p))
    /\ UNCHANGED keysHandled

NextSearch ==
    \/ \E direction \in {Forward, Backward} : \E search \in SearchStrings_n :
          CommandSearch(direction, search)
    \/ CommandNextSearchMatch
    \/ CommandPreviousSearchMatch
    \/ CommandSelectNextLastSearchWord
    \/ \E p \in NormalPositions(vimState.document) : PlaceCursor(p)

SpecSearch == InitSearch /\ [][NextSearch]_vars

\* The earliest and the latest of a non-empty set of positions.
EarliestOf(ps) == CHOOSE p \in ps : \A q \in ps : isBeforeOrEqual(p, q)
LatestOf(ps) == CHOOSE p \in ps : \A q \in ps : isBeforeOrEqual(q, p)

\* The start of the match that follows the position in the direction given:
\* the nearest start beyond the position, or around the end of the buffer.
NextStart(ranges, pos, forward) ==
    LET starts == {ranges[i].start : i \in 1..Len(ranges)}
        beyond == {q \in starts : IF forward THEN isBefore(pos, q) ELSE isBefore(q, pos)}
        pool == IF beyond # {} THEN beyond ELSE starts
    IN  IF forward THEN EarliestOf(pool) ELSE LatestOf(pool)

\* The result names a range of matchRanges by its index.
IsMatchOf(ranges, r) ==
    /\ r.match
    /\ r.index \in 0..(Len(ranges) - 1)
    /\ ranges[r.index + 1] = [start |-> r.start, end |-> r.end]

\* C24: forward, getNextSearchMatchRange returns the first match that starts
\* after the position, backward the last that starts before it, around the
\* end of the buffer when there is none; the index is that of the range in
\* matchRanges; without any match, and only then, it returns the position
\* with match false and index -1.
C24_NextSearchMatch ==
    ev.kind \in {"n", "N"} =>
        LET ranges == ev.before.searchState.matchRanges
            forward == ev.direction * ev.before.searchState.searchDirection = Forward
        IN  IF Len(ranges) = 0 THEN ev.result = NoMatch(ev.position)
            ELSE /\ IsMatchOf(ranges, ev.result)
                 /\ ev.result.start = NextStart(ranges, ev.position, forward)

\* n after a forward search, from beyond the last of several matches: the
\* first match is returned.
C24_WitnessWrapForward ==
    /\ ev.kind = "n"
    /\ ev.before.searchState.searchDirection = Forward
    /\ Len(ev.before.searchState.matchRanges) >= 2
    /\ ev.result.index = 0
    /\ isBefore(ev.result.start, ev.position)
    /\ vimState.cursorStopPosition = ev.result.start

\* N after a backward search looks forward: the match after the cursor.
C24_WitnessReversed ==
    /\ ev.kind = "N"
    /\ ev.before.searchState.searchDirection = Backward
    /\ ev.result.index = 1
    /\ isBefore(ev.position, ev.result.start)

\* n from a match: the next one, not the one under the cursor.
C24_WitnessFromMatch ==
    /\ ev.kind = "n"
    /\ ev.before.searchState.searchDirection = Forward
    /\ Len(ev.before.searchState.matchRanges) >= 2
    /\ ev.position = ev.before.searchState.matchRanges[1].start
    /\ ev.result.index = 1

\* gn has run with a search string set.
GnRan == ev.kind = "gn" /\ ev.before.searchState.searchString # <<>>

\* The indexes of the matches that hold the position.
Holding(ranges, pos) ==
    {i \in 1..Len(ranges) :
        isBeforeOrEqual(ranges[i].start, pos) /\ isBefore(pos, ranges[i].end)}

\* The range is the selection of Visual mode.
GnSelected(range) ==
    /\ vimState.currentMode = Visual
    /\ vimState.cursorStartPosition = range.start
    /\ vimState.cursorStopPosition =
          getLeftThroughLineBreaks(vimState.document, range.end, TRUE)

\* C27 as stated: gn with the cursor on any character of a match selects
\* that match.
C27_GnSelectsEveryMatchAtCursor ==
    GnRan =>
        LET ranges == ev.before.searchState.matchRanges
        IN  \A i \in Holding(ranges, ev.position) : GnSelected(ranges[i])

\* C27: getSearchMatchRangeOf returns the first match of matchRanges that
\* holds the position, and the position with match false and index -1 when
\* none does; gn selects the first match that holds the cursor, and with the
\* cursor on no match the next match in the direction of the search.
C27_SearchMatchRangeOf ==
    GnRan =>
        LET ss == ev.before.searchState
            ranges == ss.matchRanges
            holding == Holding(ranges, ev.position)
            here == getSearchMatchRangeOf(ss, ev.position)
        IN  IF holding # {}
            THEN /\ IsMatchOf(ranges, here)
                 /\ here.index + 1 \in holding
                 /\ \A i \in holding : here.index + 1 <= i
                 /\ GnSelected(here)
            ELSE /\ here = NoMatch(ev.position)
                 /\ IF Len(ranges) = 0 THEN vimState = ev.before
                    ELSE /\ IsMatchOf(ranges, ev.result)
                         /\ ev.result.start =
                               NextStart(ranges, ev.position, ss.searchDirection = Forward)
                         /\ GnSelected(ev.result)

\* gn with the cursor on the last character of a match selects it.
C27_WitnessLastCharacter ==
    /\ GnRan
    /\ ev.position = Pos(1, 1)
    /\ Len(ev.before.searchState.matchRanges) = 3
    /\ ev.before.searchState.matchRanges[1] = [start |-> Pos(1, 0), end |-> Pos(1, 2)]
    /\ GnSelected([start |-> Pos(1, 0), end |-> Pos(1, 2)])

\* gn with the cursor just past a match selects the next one.
C27_WitnessPastMatch ==
    /\ GnRan
    /\ ev.position = Pos(1, 2)
    /\ Len(ev.before.searchState.matchRanges) = 3
    /\ ev.before.searchState.matchRanges[1] = [start |-> Pos(1, 0), end |-> Pos(1, 2)]
    /\ GnSelected([start |-> Pos(2, 0), end |-> Pos(2, 2)])

\* gn on the first character of a match that another match overlaps: the
\* earlier match is selected.
C27_WitnessOverlap ==
    /\ GnRan
    /\ ev.position = Pos(0, 1)
    /\ Holding(ev.before.searchState.matchRanges, ev.position) = {1, 2}
    /\ GnSelected([start |-> Pos(0, 0), end |-> Pos(0, 2)])

----------------------------------------------------------------------------
(* Jumps to marks, set and not set (SpecMark).  The step is one key event. *)

MarkPrefixes == {<<>>, <<"d">>, <<"y">>, <<"c">>, <<"2">>}

MarkKeys == {"'", "<backtick>", "a", "b", "l", "j"}

MaxMarkKeys == 3

InitMark ==
    /\ \E p \in NormalPositions(DocFive) : \E prefix \in MarkPrefixes :
       \E markA \in {NoPosition, Pos(1, 1)} :
          /\ vimState = NewVimState(DocFive, Normal, p, p, AscertainFromCurrentMode,
                                    FALSE, markA)
          /\ ev = [kind |-> "none", prefix |-> prefix, before |-> vimState]
    /\ keysHandled = 0

\* The letters are typed as the names of marks only.
MarkKeyInScope(vs, key) ==
    /\ vs.currentMode = Normal
    /\ key \in {"a", "b"} <=> vs.recordedState.actionKeys \in {<<"'">>, <<"<backtick>">>}

\* The next key of the prefix, then up to MaxMarkKeys further keys.
HandleMarkKey ==
    /\ ev.prefix # <<>> \/ keysHandled < MaxMarkKeys
    /\ \E key \in (IF ev.prefix # <<>> THEN {Head(ev.prefix)} ELSE MarkKeys) :
          /\ ev.prefix = <<>> => MarkKeyInScope(vimState, key)
          /\ KeyStep(key, IF ev.prefix # <<>> THEN Tail(ev.prefix) ELSE <<>>)
    /\ keysHandled' = IF ev.prefix # <<>> THEN keysHandled ELSE keysHandled + 1

NextMark == HandleMarkKey

SpecMark == InitMark /\ [][NextMark]_vars

\* The key event has named the mark of a jump, and the mark is not set.
JumpToUnsetMark ==
    /\ ev.kind = "key"
    /\ ev.before.recordedState.actionKeys \in {<<"'">>, <<"<backtick>">>}
    /\ getMark(ev.before, ev.key) = NoPosition

\* C25: a jump to a mark that is not set raises the error; the buffer, the
\* cursor and the register are as before, the mode is Normal and no command
\* is in progress, so that the next key begins a new one.
C25_MarkNotSet ==
    JumpToUnsetMark =>
        /\ ev.error
        /\ vimState.document = ev.before.document
        /\ vimState.cursorStartPosition = ev.before.cursorStartPosition
        /\ vimState.cursorStopPosition = ev.before.cursorStopPosition
        /\ vimState.register = ev.before.register
        /\ vimState.currentMode = Normal
        /\ vimState.recordedState = NewRecordedState

\* d <backtick> b with no mark b: the error, and nothing deleted.
C25_WitnessOperator ==
    /\ JumpToUnsetMark
    /\ ev.error
    /\ ev.key = "b"
    /\ operator(ev.before.recordedState) = "DeleteOperator"
    /\ ev.before.recordedState.actionKeys = <<"<backtick>">>
    /\ vimState.document = DocFive

\* The key after the error has moved the cursor.
C25_WitnessNextKey ==
    /\ ev.kind = "key"
    /\ ev.key = "l"
    /\ ev.before.recordedState = NewRecordedState
    /\ keysHandled = 3
    /\ vimState.cursorStopPosition # ev.before.cursorStopPosition

\* 'a with the mark set: no error, the cursor is on the mark's line.
C25_WitnessSet ==
    /\ ev.kind = "key"
    /\ ev.before.recordedState.actionKeys = <<"'">>
    /\ ev.key = "a"
    /\ ~ ev.error
    /\ vimState.cursorStopPosition.line = 1

----------------------------------------------------------------------------
(* f, F, t, T and their repeats ; and , (SpecFind).  The step is one key   *)
(* event.                                                                  *)

FindDocs ==
    { << <<"a", "b", "a", "c", "b", "a">> >>,
      << <<"b", "a", "a">>, <<"a", "b">> >> }

FindPrefixes == {<<>>, <<"d">>, <<"2">>}

FindKeys == {"f", "F", "t", "T", ";", ",", "a", "b", "x", "2"}

MaxFindKeys == 4

InitFind ==
    /\ \E d \in FindDocs : \E p \in NormalPositions(d) : \E prefix \in FindPrefixes :
          /\ vimState = NewVimState(d, Normal, p, p, AscertainFromCurrentMode, FALSE,
                                    NoPosition)
          /\ ev = [kind |-> "none", prefix |-> prefix, before |-> vimState]
    /\ keysHandled = 0

\* The letters are typed as the character to find only.
FindKeyInScope(vs, key) ==
    /\ vs.currentMode = Normal
    /\ key \in {"a", "b", "x"} <=>
          vs.recordedState.actionKeys \in {<<"f">>, <<"F">>, <<"t">>, <<"T">>}
    /\ key = "2" => vs.recordedState.actionKeys = <<>> /\ vs.recordedState.count = 0

\* The next key of the prefix, then up to MaxFindKeys further keys.
HandleFindKey ==
    /\ ev.prefix # <<>> \/ keysHandled < MaxFindKeys
    /\ \E key \in (IF ev.prefix # <<>> THEN {Head(ev.prefix)} ELSE FindKeys) :
          /\ ev.prefix = <<>> => FindKeyInScope(vimState, key)
          /\ KeyStep(key, IF ev.prefix # <<>> THEN Tail(ev.prefix) ELSE <<>>)
    /\ keysHandled' = IF ev.prefix # <<>> THEN keysHandled ELSE keysHandled + 1

NextFind == HandleFindKey

SpecFind == InitFind /\ [][NextFind]_vars

\* The movements stored for ; and for ,
StoredRepeats(vs) ==
    <<vs.lastSemicolonRepeatableMovement, vs.lastCommaRepeatableMovement>>

\* The key event has run f, F, t or T with the character typed.
FindRan == ev.kind = "key" /\ ev.motion \in FindClasses

\* The key event has run ; or ,
RepeatRan == ev.kind = "key" /\ ev.motion \in {"MoveRepeat", "MoveRepeatReversed"}

\* The movement that the repeat key of the event found stored.
RepeatedMovement ==
    IF ev.motion = "MoveRepeat" THEN ev.before.lastSemicolonRepeatableMovement
    ELSE ev.before.lastCommaRepeatableMovement

\* Where the search of the movement ends from column c of the text: the
\* count-th occurrence of its character in its direction, or for t and T the
\* column before it; a repeated t or T without a count passes over an
\* occurrence next to the cursor.  -1 if there are too few occurrences.
RepeatTarget(text, c, movement, count) ==
    LET forwards == movement.name \in {"MoveFindForward", "MoveTilForward"}
        til == movement.name \in {"MoveTilForward", "MoveTilBackward"}
        char == movement.keysPressed[2]
        n == IF count = 0 THEN 1 ELSE count
        next == IF forwards THEN c + 1 ELSE c - 1
        side == {x \in 0..(Len(text) - 1) :
                    text[x + 1] = char /\ (IF forwards THEN x > c ELSE x < c)}
        pool == IF til /\ n = 1 THEN side \ {next} ELSE side
        rank(x) == Cardinality({y \in pool : IF forwards THEN y <= x ELSE y >= x})
        hits == {x \in pool : rank(x) = n}
    IN  IF hits = {} THEN 0 - 1
        ELSE LET x == CHOOSE y \in hits : TRUE
             IN  IF ~ til THEN x ELSE IF forwards THEN x - 1 ELSE x + 1

\* C28: f, F, t or T that finds its character, typed as such, stores itself
\* for ; and its reverse for , while one that does not find it, and the keys
\* ; and , leave what is stored as it was; ; and , run the stored search from
\* the cursor, and with nothing stored leave the cursor in place.
C28_RepeatableSearch ==
    /\ FindRan =>
          IF ev.failed THEN StoredRepeats(vimState) = StoredRepeats(ev.before)
          ELSE LET keys == ev.before.recordedState.actionKeys \o <<ev.key>>
               IN  StoredRepeats(vimState) =
                       << [name |-> ev.motion, keysPressed |-> keys],
                          [name |-> Reversed(ev.motion), keysPressed |-> keys] >>
    /\ RepeatRan =>
          /\ StoredRepeats(vimState) = StoredRepeats(ev.before)
          /\ operator(ev.before.recordedState) = "" =>
                LET p == ev.before.cursorStopPosition
                    target == IF RepeatedMovement = NoMovement THEN 0 - 1
                              ELSE RepeatTarget(ev.before.document[p.line + 1], p.character,
                                                RepeatedMovement,
                                                ev.before.recordedState.count)
                IN  /\ vimState.document = ev.before.document
                    /\ vimState.cursorStopPosition =
                          IF target < 0 THEN p ELSE Pos(p.line, target)

\* fa from the first column, then ; : the cursor is on the next a.
C28_WitnessSemicolon ==
    /\ RepeatRan
    /\ ev.motion = "MoveRepeat"
    /\ ev.before.lastSemicolonRepeatableMovement =
          [name |-> "MoveFindForward", keysPressed |-> <<"f", "a">>]
    /\ ev.before.cursorStopPosition = Pos(0, 2)
    /\ vimState.cursorStopPosition = Pos(0, 5)

\* , after ; after fa: the cursor is back on the a before.
C28_WitnessComma ==
    /\ RepeatRan
    /\ ev.motion = "MoveRepeatReversed"
    /\ ev.before.lastCommaRepeatableMovement =
          [name |-> "MoveFindBackward", keysPressed |-> <<"f", "a">>]
    /\ ev.before.cursorStopPosition = Pos(0, 5)
    /\ vimState.cursorStopPosition = Pos(0, 2)
    /\ keysHandled = 4

\* fx after fa: x is not found and fa is still what ; repeats.
C28_WitnessNotFound ==
    /\ FindRan
    /\ ev.failed
    /\ ev.key = "x"
    /\ vimState.lastSemicolonRepeatableMovement =
          [name |-> "MoveFindForward", keysPressed |-> <<"f", "a">>]

\* ; after ta passes over the a next to the cursor.
C28_WitnessTil ==
    /\ RepeatRan
    /\ ev.before.lastSemicolonRepeatableMovement.name = "MoveTilForward"
    /\ ev.before.cursorStopPosition = Pos(0, 1)
    /\ vimState.cursorStopPosition = Pos(0, 4)

\* ; with nothing stored.
C28_WitnessNothingStored ==
    /\ RepeatRan
    /\ RepeatedMovement = NoMovement
    /\ operator(ev.before.recordedState) = ""
    /\ vimState.cursorStopPosition = ev.before.cursorStopPosition

----------------------------------------------------------------------------
(* Bracket text objects on a selection (SpecObject): the object is typed   *)
(* in Normal mode, after d, or in Visual mode on any selection.  The step  *)
(* is one key event.                                                       *)

DocDouble == << <<"(", "(", "a", ")", ")", "b">> >>

ObjectDocs == {DocPairs, DocDouble}

ObjectKeys == {"i", "a", "(", ")"}

MaxObjectKeys == 2

InitObject ==
    /\ \E d \in ObjectDocs : \E m \in {Normal, Visual} :
       \E start \in NormalPositions(d) : \E stop \in NormalPositions(d) :
       \E prefix \in {<<>>, <<"d">>} :
          /\ isBeforeOrEqual(start, stop)
          /\ m = Normal => start = stop
          /\ m = Visual => prefix = <<>>
          /\ vimState = NewVimState(d, m, start, stop, AscertainFromCurrentMode, FALSE,
                                    NoPosition)
          /\ ev = [kind |-> "none", prefix |-> prefix, before |-> vimState]
    /\ keysHandled = 0

\* The brackets are typed as the name of an object only.
ObjectKeyInScope(vs, key) ==
    /\ vs.currentMode \in {Normal, Visual}
    /\ key \in {"(", ")"} <=> vs.recordedState.actionKeys \in {<<"i">>, <<"a">>}
    /\ (vs.currentMode = Normal /\ operator(vs.recordedState) = "") => key \notin {"i", "a"}

\* The next key of the prefix, then up to MaxObjectKeys further keys.
HandleObjectKey ==
    /\ ev.prefix # <<>> \/ keysHandled < MaxObjectKeys
    /\ \E key \in (IF ev.prefix # <<>> THEN {Head(ev.prefix)} ELSE ObjectKeys) :
          /\ ev.prefix = <<>> => ObjectKeyInScope(vimState, key)
          /\ KeyStep(key, IF ev.prefix # <<>> THEN Tail(ev.prefix) ELSE <<>>)
    /\ keysHandled' = IF ev.prefix # <<>> THEN keysHandled ELSE keysHandled + 1

NextObject == HandleObjectKey

SpecObject == InitObject /\ [][NextObject]_vars

\* The key event has run a bracket object, which failed.
ObjectFailed ==
    /\ ev.kind = "key"
    /\ ev.motion \in BracketObjects
    /\ ev.failed

\* C30: a bracket object that fails returns the selection it was given, the
\* cursor start position on entry and the position, marked failed, and has
\* left the cursor start and stop positions of vimState as they were.
C30_FailureLeavesCursors ==
    ObjectFailed =>
        /\ ev.result.failed
        /\ ev.result.start = ev.before.cursorStartPosition
        /\ ev.result.stop = ev.before.cursorStopPosition
        /\ ev.result.cursorStartPosition = ev.before.cursorStartPosition
        /\ ev.result.cursorStopPosition = ev.before.cursorStopPosition

\* What holds: the failed range returned is the selection on entry, and the
\* selection is that range again when the key event ends.
C30_FailureReturnsSelection ==
    ObjectFailed =>
        /\ ev.result.failed
        /\ ev.result.start = ev.before.cursorStartPosition
        /\ ev.result.stop = ev.before.cursorStopPosition
        /\ vimState.cursorStartPosition = ev.before.cursorStartPosition
        /\ vimState.cursorStopPosition = ev.before.cursorStopPosition
        /\ vimState.document = ev.before.document

\* What holds: the motion leaves the cursor of vimState as it was unless the
\* selection on entry is the whole inside of a pair, which makes an inner
\* object move it onto the pair before the search.
C30_CursorsMovedOnlyFromFullInside ==
    (ObjectFailed /\ ev.result.cursorStartPosition # ev.before.cursorStartPosition) =>
        /\ ev.motion \in {"MoveIParentheses", "MoveIClosingParentheses"}
        /\ ev.result.cursorStartPosition =
              getLeftThroughLineBreaks(ev.before.document, ev.before.cursorStartPosition,
                                       TRUE)
        /\ getCharAt(ev.before.document, ev.result.cursorStartPosition) = "("
        /\ getCharAt(ev.before.document, ev.result.cursorStopPosition) = ")"

\* C30, as the code has it: a failed bracket object returns the selection on
\* entry and the key event ends with it, and the motion has moved the cursor
\* of vimState only from a selection that held the whole inside of a pair.
C30_FailureKeepsSelection ==
    C30_FailureReturnsSelection /\ C30_CursorsMovedOnlyFromFullInside

\* i( on the selection of a between the brackets of (a)b, with no pair around
\* that pair: the object fails and vimState holds the brackets' positions.
C30_WitnessFullInside ==
    /\ ObjectFailed
    /\ ev.before.document = DocPairs
    /\ ev.before.currentMode = Visual
    /\ ev.before.cursorStartPosition = Pos(0, 1)
    /\ ev.before.cursorStopPosition = Pos(0, 1)
    /\ ev.result.start = Pos(0, 1)
    /\ ev.result.cursorStartPosition = Pos(0, 0)
    /\ ev.result.cursorStopPosition = Pos(0, 2)

\* a( outside any pair: the object fails, nothing has moved.
C30_WitnessNoPair ==
    /\ ObjectFailed
    /\ ev.motion = "MoveAParentheses"
    /\ ev.before.cursorStopPosition = Pos(0, 3)
    /\ ev.result.cursorStartPosition = ev.before.cursorStartPosition
    /\ ev.result.cursorStopPosition = ev.before.cursorStopPosition

----------------------------------------------------------------------------
(* {count}% (SpecPercent): MoveToMatchingBracket.execActionWithCount with  *)
(* a count, applied once at a position of a buffer of one to               *)
(* MaxPercentLines indented lines.                                         *)

MaxPercentLines == 5

MaxPercent == 101

\* Math.round of n / 100 for n >= 0: halves go up.
roundPercent(n) == (2 * n + 100) \div 200

\* A target before the first line is no Position: the constructor refuses a
\* negative line, and the motion ends with that error.
IllegalPosition(vs) ==
    [vimState |-> vs,
     result |-> [kind |-> "Error", start |-> NoPosition, stop |-> NoPosition,
                 failed |-> FALSE, registerMode |-> ""]]

\* MoveToMatchingBracket.execActionWithCount, count >= 1.
MoveToMatchingBracket_execActionWithCount(position, vs, count) ==
    IF count < 0 \/ count > 100 THEN IMovement(vs, position, position, TRUE, "")
    ELSE
    LET targetLine == roundPercent(count * getLineCount(vs.document))
    IN  IF targetLine - 1 < 0 THEN IllegalPosition(vs)
        ELSE PositionResult(vs, getFirstLineNonBlankChar(vs.document, Pos(targetLine - 1, 0)))

PercentLine == <<" ", "a">>

PercentDocs == {[l \in 1..n |-> PercentLine] : n \in 1..MaxPercentLines}

InitPercent ==
    /\ \E d \in PercentDocs : \E p \in NormalPositions(d) :
          vimState = NewVimState(d, Normal, p, p, AscertainFromCurrentMode, FALSE, NoPosition)
    /\ ev = [kind |-> "none"]
    /\ keysHandled = 0

\* {count}%: the cursor goes where the motion says, and stays on a failed
\* motion and on an error.
Percent(count) ==
    /\ keysHandled = 0
    /\ LET position == vimState.cursorStopPosition
           r == MoveToMatchingBracket_execActionWithCount(position, vimState, count)
       IN  /\ vimState' = IF r.result.kind = "Position"
                           THEN [r.vimState EXCEPT !.cursorStartPosition = r.result.stop,
                                                   !.cursorStopPosition = r.result.stop]
                           ELSE r.vimState
           /\ ev' = [kind |-> "percent", count |-> count, before |-> vimState,
                     result |-> r.result]
    /\ keysHandled' = 1

NextPercent == \E count \in 1..MaxPercent : Percent(count)

SpecPercent == InitPercent /\ [][NextPercent]_vars

PercentRan == ev.kind = "percent"

\* C29: {count}% with 1 <= count <= 100 moves to the 1-based line
\* round(count x lineCount / 100), a line of the document; a count above
\* 100 is a failed motion and the cursor stays.
C29_PercentLineInDocument ==
    PercentRan =>
        LET d == ev.before.document
            targetLine == roundPercent(ev.count * getLineCount(d))
        IN  IF ev.count > 100
            THEN /\ ev.result.failed
                 /\ vimState.cursorStopPosition = ev.before.cursorStopPosition
            ELSE /\ targetLine \in 1..getLineCount(d)
                 /\ ev.result.kind = "Position"
                 /\ vimState.cursorStopPosition.line = targetLine - 1

\* What holds: the rounded line is never after the last line, the cursor goes
\* to its first non-blank when it is a line, and stays when the count is
\* above 100.
C29_PercentFromOneLine ==
    PercentRan =>
        LET d == ev.before.document
            targetLine == roundPercent(ev.count * getLineCount(d))
        IN  /\ ev.count > 100 =>
                 /\ ev.result.failed
                 /\ ev.result.start = ev.before.cursorStopPosition
                 /\ ev.result.stop = ev.before.cursorStopPosition
                 /\ vimState.cursorStopPosition = ev.before.cursorStopPosition
            /\ ev.count <= 100 => targetLine <= getLineCount(d)
            /\ (ev.count <= 100 /\ targetLine >= 1) =>
                 /\ ev.result.kind = "Position"
                 /\ vimState.cursorStopPosition = Pos(targetLine - 1, 1)
            /\ (ev.count <= 100 /\ targetLine < 1) =>
                 /\ 2 * ev.count * getLineCount(d) < 100
                 /\ ev.result.kind = "Error"
                 /\ vimState.cursorStopPosition = ev.before.cursorStopPosition

\* 1% in five lines: the rounded line is 0, before the first line.
C29_WitnessLineZero ==
    /\ PercentRan
    /\ ev.count = 1
    /\ getLineCount(ev.before.document) = MaxPercentLines
    /\ roundPercent(ev.count * getLineCount(ev.before.document)) = 0
    /\ ev.result.kind = "Error"

\* 50% in five lines: 2.5 rounds to line 3.
C29_WitnessHalf ==
    /\ PercentRan
    /\ ev.count = 50
    /\ getLineCount(ev.before.document) = 5
    /\ ev.before.cursorStopPosition = Pos(0, 0)
    /\ vimState.cursorStopPosition = Pos(2, 1)

\* 101%: a failed motion.
C29_WitnessAboveHundred ==
    /\ PercentRan
    /\ ev.count = 101
    /\ ev.result.failed

----------------------------------------------------------------------------
(* Jump.isSamePosition (SpecJump): a jump is compared once with another    *)
(* jump, with null or with undefined.                                      *)

MaxJumpLine == 2

MaxJumpCharacter == 1

JumpFiles == {"a.ts", "b.ts"}

Jump(fileName, position) == [fileName |-> fileName, position |-> position]

Jumps ==
    {Jump(f, Pos(l, c)) : f \in JumpFiles, l \in 0..MaxJumpLine, c \in 0..MaxJumpCharacter}

\* The values of other that are no jump: null and undefined, which have no
\* fields.
MissingJumps ==
    {[fileName |-> m, position |-> NoPosition] : m \in {"null", "undefined"}}

\* Jump.isSamePosition
isSamePosition(this, other) ==
    \/ other \in MissingJumps
    \/ /\ this.fileName = other.fileName
       /\ this.position.line = other.position.line
       /\ this.position.character = other.position.character

InitJump ==
    /\ vimState \in Jumps
    /\ ev = [kind |-> "none"]
    /\ keysHandled = 0

CompareJump(other) ==
    /\ keysHandled = 0
    /\ ev' = [kind |-> "isSamePosition", this |-> vimState, other |-> other,
              result |-> isSamePosition(vimState, other)]
    /\ keysHandled' = 1
    /\ UNCHANGED vimState

NextJump == \E other \in Jumps \cup MissingJumps : CompareJump(other)

SpecJump == InitJump /\ [][NextJump]_vars

Compared == ev.kind = "isSamePosition"

\* C31: isSamePosition(other) is true if and only if other is a jump with
\* the file name, line and character of this jump; it is not true for a
\* missing other.
C31_SamePositionIff ==
    Compared =>
        (ev.result <=> (ev.other \in Jumps /\ ev.other = ev.this))

\* What holds: against a jump the result is the equality of file name, line
\* and character; against a missing other it is true.
C31_SamePositionOfJump ==
    Compared =>
        /\ ev.other \in Jumps => (ev.result <=> ev.other = ev.this)
        /\ ev.other \in MissingJumps => ev.result

\* A jump compared with null: the result is true.
C31_WitnessNull ==
    /\ Compared
    /\ ev.other.fileName = "null"
    /\ ev.other \in MissingJumps
    /\ ev.result

\* Two jumps of one file and line that differ in the character.
C31_WitnessCharacter ==
    /\ Compared
    /\ ev.other \in Jumps
    /\ ev.other.fileName = ev.this.fileName
    /\ ev.other.position.line = ev.this.position.line
    /\ ev.other.position.character # ev.this.position.character
    /\ ~ ev.result

----------------------------------------------------------------------------
(* The search state over time (SpecRanges): one SearchState object whose   *)
(* search string is set again and again, queried, and whose document is    *)
(* edited between the queries.  vimState holds the document, its version,  *)
(* the active end of the selection and the object.                         *)

MaxVersion == 3

\* The fields of a SearchState before its constructor sets the string.
EmptySearchState(direction) ==
    [searchString |-> <<>>, searchDirection |-> direction, matchRanges |-> <<>>,
     cachedDocumentVersion |-> 0]

\* _recalculateSearchRanges of the object: nothing for the empty string,
\* a new scan when the version differs from the cached one or when forced.
SearchState_recalculateSearchRanges(ss, d, version, selection, forceRecalc) ==
    IF ss.searchString = <<>> THEN ss
    ELSE IF ss.cachedDocumentVersion # version \/ forceRecalc
    THEN [ss EXCEPT !.cachedDocumentVersion = version,
                    !.matchRanges = recalculateSearchRanges(d, ss.searchString, selection)]
    ELSE ss

\* set searchString
SearchState_setSearchString(ss, search, d, version, selection) ==
    IF ss.searchString # search
    THEN SearchState_recalculateSearchRanges([ss EXCEPT !.searchString = search],
                                             d, version, selection, TRUE)
    ELSE ss

RangeDocs ==
    { << <<"a", "b">>, <<"a">> >>,
      << <<"b", "a", "a">> >>,
      << <<>>, <<"b">> >> }

RangeStrings == {<<>>, <<"a">>, <<"b">>, <<"a", "b">>, <<"a", "*">>, <<"x", "*">>}

\* The ends of each line.
RangePositions(d) ==
    {Pos(l, c) : l \in 0..(Len(d) - 1), c \in {0, Len(d[1]), Len(d[Len(d)])}}
        \cap allPositions(d)

InitRanges ==
    /\ \E d \in RangeDocs : \E p \in RangePositions(d) :
       \E direction \in {Forward, Backward} :
          vimState = [document |-> d, version |-> 1, selection |-> p,
                      searchState |-> EmptySearchState(direction)]
    /\ ev = [kind |-> "none", before |-> vimState, result |-> NoMatch(NoPosition)]
    /\ keysHandled = 0

RangeEvent(kind, result) == [kind |-> kind, before |-> vimState, result |-> result]

SetSearchString(search) ==
    /\ vimState' = [vimState EXCEPT !.searchState =
            SearchState_setSearchString(@, search, vimState.document, vimState.version,
                                        vimState.selection)]
    /\ ev' = RangeEvent("set", NoMatch(NoPosition))
    /\ UNCHANGED keysHandled

QueryNextSearchMatchRange(startPosition, direction) ==
    /\ LET ss == SearchState_recalculateSearchRanges(
                     vimState.searchState, vimState.document, vimState.version,
                     vimState.selection, FALSE)
       IN  /\ vimState' = [vimState EXCEPT !.searchState = ss]
           /\ ev' = RangeEvent("getNextSearchMatchRange",
                               getNextSearchMatchRange(ss, startPosition, direction))
    /\ UNCHANGED keysHandled

QuerySearchMatchRangeOf(pos) ==
    /\ LET ss == SearchState_recalculateSearchRanges(
                     vimState.searchState, vimState.document, vimState.version,
                     vimState.selection, FALSE)
       IN  /\ vimState' = [vimState EXCEPT !.searchState = ss]
           /\ ev' = RangeEvent("getSearchMatchRangeOf", getSearchMatchRangeOf(ss, pos))
    /\ UNCHANGED keysHandled

\* An edit: another text, the next version, the selection somewhere in it.
EditDocument(d, p) ==
    /\ vimState.version < MaxVersion
    /\ d # vimState.document
    /\ vimState' = [vimState EXCEPT !.document = d, !.version = @ + 1, !.selection = p]
    /\ ev' = RangeEvent("edit", NoMatch(NoPosition))
    /\ UNCHANGED keysHandled

NextRanges ==
    \/ \E search \in RangeStrings : SetSearchString(search)
    \/ \E p \in RangePositions(vimState.document) : \E direction \in {Forward, Backward} :
          QueryNextSearchMatchRange(p, direction)
    \/ \E p \in RangePositions(vimState.document) : QuerySearchMatchRangeOf(p)
    \/ \E d \in RangeDocs : \E p \in RangePositions(d) : EditDocument(d, p)

SpecRanges == InitRanges /\ [][NextRanges]_vars

Queried == ev.kind \in {"getNextSearchMatchRange", "getSearchMatchRangeOf"}

\* The text of the range is one the search string matches.
MatchesText(d, search, range) ==
    /\ isBeforeOrEqual(range.start, range.end)
    /\ range.start \in allPositions(d) /\ range.end \in allPositions(d)
    /\ IF isStar(search)
       THEN \A i \in 1..Len(getText(d, range.start, range.end)) :
                getText(d, range.start, range.end)[i] = search[1]
       ELSE getText(d, range.start, range.end) = search

\* The offsets of the text at which a literal search string occurs.
Occurrences(d, search) ==
    {i \in 0..(Len(JoinLines(d)) - Len(search)) :
        SubSeq(JoinLines(d), i + 1, i + Len(search)) = search}

\* The ranges are matches of the string in the document, and for a literal
\* string all of them.
RangesOf(d, search, ranges) ==
    /\ \A i \in 1..Len(ranges) : MatchesText(d, search, ranges[i])
    /\ ~ isStar(search) =>
          \A o \in Occurrences(d, search) :
              \E i \in 1..Len(ranges) : getOffsetAt(d, ranges[i].start) = o

\* C32: when a query returns, matchRanges holds the matches of the search
\* string as it is now in the document as it is now, and none for the empty
\* string.
C32_RangesAreCurrent ==
    Queried =>
        LET ss == vimState.searchState
        IN  IF ss.searchString = <<>> THEN ss.matchRanges = <<>>
            ELSE RangesOf(vimState.document, ss.searchString, ss.matchRanges)

\* What holds: the ranges are current when the string is not empty, and are
\* those the object already had when it is.
C32_RangesCurrentUnlessEmpty ==
    Queried =>
        LET ss == vimState.searchState
        IN  IF ss.searchString = <<>>
            THEN ss.matchRanges = ev.before.searchState.matchRanges
            ELSE /\ RangesOf(vimState.document, ss.searchString, ss.matchRanges)
                 /\ ss.cachedDocumentVersion = vimState.version

\* The string is emptied after a search for b: the query returns a match of b.
C32_WitnessEmptied ==
    /\ Queried
    /\ vimState.searchState.searchString = <<>>
    /\ ev.result.match
    /\ getText(vimState.document, ev.result.start, ev.result.end) = <<"b">>

\* The document is edited after the scan: the query scans again.
C32_WitnessEdited ==
    /\ Queried
    /\ vimState.searchState.searchString = <<"a">>
    /\ ev.before.searchState.searchString = <<"a">>
    /\ ev.before.searchState.cachedDocumentVersion < vimState.version
    /\ ev.before.searchState.matchRanges # vimState.searchState.matchRanges
    /\ ev.result.match

----------------------------------------------------------------------------
(* The scan of _recalculateSearchRanges step by step (SpecScan): each      *)
(* round of the do-while loop is a step, the sort is the last one.  One of *)
(* the documents is a line long enough for more than MAX_SEARCH_RANGES     *)
(* matches.                                                                *)

LongLineLength == 1001

LongDoc == << [i \in 1..LongLineLength |-> "c"] >>

ScanDocs == RangeDocs \cup {LongDoc}

\* The selection the scan starts from: the ends of the lines, the middle of
\* the long line.
ScanPositions(d) ==
    IF d = LongDoc THEN {Pos(0, LongLineLength \div 2)} ELSE RangePositions(d)

\* regex.exec: the match as index and length, and lastIndex as exec leaves
\* it: after the match, or 0 when there is none.
exec(text, search, lastIndex) ==
    LET index == regexExec(text, search, lastIndex)
    IN  IF index < 0 THEN [index |-> index, length |-> 0, lastIndex |-> 0]
        ELSE [index |-> index, length |-> matchLength(text, search, index),
              lastIndex |-> index + matchLength(text, search, index)]

NullResult == [index |-> 0 - 1, length |-> 0, lastIndex |-> 0]

Idle == [pc |-> "idle", startPos |-> 0, result |-> NullResult, wrappedOver |-> FALSE]

\* The statements before the loop: the version is cached, the ranges are
\* emptied, the first exec starts at the selection.
beginScan(ss, d, version, selection) ==
    LET startPos == offsetOfLine(d, selection.line) + selection.character
    IN  [searchState |-> [ss EXCEPT !.cachedDocumentVersion = version,
                                    !.matchRanges = <<>>],
         scan |-> [pc |-> "loop", startPos |-> startPos,
                   result |-> exec(JoinLines(d), ss.searchString, startPos),
                   wrappedOver |-> FALSE]]

\* _recalculateSearchRanges up to the loop.
recalculateOrNot(ss, d, version, selection, forceRecalc) ==
    IF ss.searchString # <<>> /\ (ss.cachedDocumentVersion # version \/ forceRecalc)
    THEN beginScan(ss, d, version, selection)
    ELSE [searchState |-> ss, scan |-> Idle]

InitScan ==
    /\ \E d \in ScanDocs : \E p \in ScanPositions(d) :
          vimState = [document |-> d, version |-> 1, selection |-> p,
                      searchState |-> EmptySearchState(Forward), scan |-> Idle]
    /\ ev = [kind |-> "none"]
    /\ keysHandled = 0

ScanSetSearchString(search) ==
    /\ vimState.scan.pc = "idle"
    /\ vimState.searchState.searchString # search
    /\ LET r == recalculateOrNot([vimState.searchState EXCEPT !.searchString = search],
                                 vimState.document, vimState.version,
                                 vimState.selection, TRUE)
       IN  vimState' = [vimState EXCEPT !.searchState = r.searchState, !.scan = r.scan]
    /\ ev' = [kind |-> "set"]
    /\ UNCHANGED keysHandled

\* A query: it scans when the document has another version.
ScanQuery ==
    /\ vimState.scan.pc = "idle"
    /\ LET r == recalculateOrNot(vimState.searchState, vimState.document,
                                 vimState.version, vimState.selection, FALSE)
       IN  vimState' = [vimState EXCEPT !.searchState = r.searchState, !.scan = r.scan]
    /\ ev' = [kind |-> "query"]
    /\ UNCHANGED keysHandled

ScanEditDocument(d, p) ==
    /\ vimState.scan.pc = "idle"
    /\ vimState.version < MaxVersion
    /\ d # vimState.document
    /\ vimState' = [vimState EXCEPT !.document = d, !.version = @ + 1, !.selection = p]
    /\ ev' = [kind |-> "edit"]
    /\ UNCHANGED keysHandled

\* One round of the do-while loop.
LoopStep ==
    /\ vimState.scan.pc = "loop"
    /\ LET d == vimState.document
           text == JoinLines(d)
           arr == sumLineLengths(d, 0)
           search == vimState.searchState.searchString
           ranges == vimState.searchState.matchRanges
           scan == vimState.scan
           wrapNow == scan.result.index < 0 /\ ~ scan.wrappedOver
           result1 == IF wrapNow THEN exec(text, search, 0) ELSE scan.result
           wrapped1 == scan.wrappedOver \/ wrapNow
           lastIndex1 == IF result1.index = result1.lastIndex
                         THEN result1.lastIndex + 1 ELSE result1.lastIndex
           next == exec(text, search, lastIndex1)
           wrapNext == next.index < 0 /\ ~ wrapped1
           result2 == IF wrapNext THEN exec(text, search, 0) ELSE next
           wrapped2 == wrapped1 \/ wrapNext
           pushed == Append(ranges,
                            [start |-> absPosToPosition(result1.index, 0, Len(arr), arr),
                             end |-> absPosToPosition(result1.index + result1.length, 0,
                                                      Len(arr), arr)])
       IN  IF Len(ranges) >= MAX_SEARCH_RANGES \/ result1.index < 0
           THEN vimState' = [vimState EXCEPT !.scan.pc = "sort"]
           ELSE vimState' = [vimState EXCEPT
                    !.searchState.matchRanges = pushed,
                    !.scan = [pc |-> IF /\ result2.index >= 0
                                       /\ ~ (wrapped2 /\ result2.index >= scan.startPos)
                                    THEN "loop" ELSE "sort",
                              startPos |-> scan.startPos, result |-> result2,
                              wrappedOver |-> wrapped2]]
    /\ ev' = [kind |-> "loop"]
    /\ UNCHANGED keysHandled

\* The sort that ends the recalculation.
SortStep ==
    /\ vimState.scan.pc = "sort"
    /\ vimState' = [vimState EXCEPT !.searchState.matchRanges = sortRanges(@),
                                    !.scan = Idle]
    /\ ev' = [kind |-> "sort"]
    /\ UNCHANGED keysHandled

NextScan ==
    \/ \E search \in RangeStrings : ScanSetSearchString(search)
    \/ ScanQuery
    \/ \E d \in RangeDocs : \E p \in ScanPositions(d) : ScanEditDocument(d, p)
    \/ LoopStep
    \/ SortStep

SpecScan == InitScan /\ [][NextScan]_vars

\* At most MAX_SEARCH_RANGES ranges at any moment, and between the
\* recalculations each range starts after the one before it, so that none
\* is there twice.
RangesBoundedAndSorted ==
    LET ranges == vimState.searchState.matchRanges
    IN  /\ Len(ranges) <= MAX_SEARCH_RANGES
        /\ vimState.scan.pc = "idle" =>
              \A i \in 1..(Len(ranges) - 1) :
                  isBefore(ranges[i].start, ranges[i + 1].start)

\* A round of the loop records one more range or is the last round.
LoopProgress ==
    LoopStep =>
        \/ vimState'.scan.pc = "sort"
        \/ Len(vimState'.searchState.matchRanges) =
              Len(vimState.searchState.matchRanges) + 1

\* C33: after any sequence of search-string changes and queries matchRanges
\* holds at most 1000 ranges, ascending by start, none twice; and the loop
\* ends, as each round records a range or is the last, also for a pattern
\* that matches the empty string.
C33_RangesBoundedSortedLoopEnds ==
    []RangesBoundedAndSorted /\ [][LoopProgress]_vars

\* The long line scanned for x*: the empty string matches at every offset,
\* and the scan from the middle stops at 1000 ranges, which the sort makes
\* begin at offset 0.
C33_WitnessCap ==
    /\ vimState.document = LongDoc
    /\ vimState.scan.pc = "idle"
    /\ vimState.searchState.searchString = <<"x", "*">>
    /\ Len(vimState.searchState.matchRanges) = MAX_SEARCH_RANGES
    /\ vimState.searchState.matchRanges[1] = [start |-> Pos(0, 0), end |-> Pos(0, 0)]

\* a* from the end of baa: the empty string matches there, the scan wraps,
\* records the empty match at b and the run of a, and stops where it began.
C33_WitnessWrapped ==
    /\ vimState.scan.pc = "idle"
    /\ vimState.document = << <<"b", "a", "a">> >>
    /\ vimState.searchState.searchString = <<"a", "*">>
    /\ vimState.searchState.matchRanges =
          << [start |-> Pos(0, 0), end |-> Pos(0, 0)],
             [start |-> Pos(0, 1), end |-> Pos(0, 3)],
             [start |-> Pos(0, 3), end |-> Pos(0, 3)] >>

----------------------------------------------------------------------------
(* Counted motions whose iterations fail (SpecMotion, and SpecCounted for  *)
(* a line without quotes above a line with a quoted string)                *)

DocQuoteBelow == << <<"x", "y">>, <<"\"", "b", "\"", "c">> >>

CountedDocs == {DocQuoteBelow, DocQuotes, DocPairs}

CountedPrefixes ==
    {op \o n : op \in {<<"d">>, <<"y">>}, n \in {<<>>, <<"2">>, <<"3">>}}

InitCounted ==
    /\ \E d \in CountedDocs : \E p \in NormalPositions(d) : \E prefix \in CountedPrefixes :
          /\ vimState = NewVimState(d, Normal, p, p, AscertainFromCurrentMode,
                                    FALSE, NoPosition)
          /\ ev = [kind |-> "none", prefix |-> prefix, before |-> vimState]
    /\ keysHandled = 0

SpecCounted == InitCounted /\ [][HandleMotionKey]_vars

\* A key event ran a looped motion that returns ranges.
RangeMotion ==
    /\ KeyEvent
    /\ ev.motion \in BracketObjects \cup QuoteObjects
    /\ \A k \in 1..CountTyped : NthResult(k).kind = "IMovement"

\* C34: when the first iteration of a counted range motion fails, the
\* result is a failed one whatever the count, and an operator before it
\* changes nothing.
C34_FirstFailureFails ==
    (RangeMotion /\ NthResult(1).failed) =>
        /\ ev.result.failed
        /\ vimState.document = ev.before.document
        /\ vimState.register = ev.before.register

\* What holds: the result is failed when the first iteration fails and the
\* second, if there is one, fails too.
C34_FirstTwoFailuresFail ==
    (RangeMotion /\ NthResult(1).failed /\ (CountTyped >= 2 => NthResult(2).failed)) =>
        /\ ev.result.failed
        /\ vimState.document = ev.before.document
        /\ vimState.register = ev.before.register

\* The first iteration fails, the second finds a range, and the operator
\* changes the document.
C34_WitnessSecondSucceeds ==
    /\ RangeMotion
    /\ CountTyped = 2
    /\ NthResult(1).failed
    /\ ~ NthResult(2).failed
    /\ ~ ev.result.failed
    /\ ev.op = "DeleteOperator"
    /\ ev.result.start = NthResult(1).start
    /\ vimState.document # ev.before.document

\* The first iteration fails without a count: nothing changes.
C34_WitnessOnce ==
    /\ RangeMotion
    /\ CountTyped = 1
    /\ ev.before.recordedState.count = 0
    /\ NthResult(1).failed
    /\ ev.result.failed
    /\ operator(ev.before.recordedState) = "DeleteOperator"

\* Iteration i is the first that fails, and is not the first iteration.
StoppedAt(i) ==
    /\ i \in 2..CountTyped
    /\ NthResult(i).failed
    /\ \A k \in 1..(i - 1) : ~ NthResult(k).failed

\* C35: when iteration i >= 2 fails after those before it succeeded, the
\* result is a range that is not failed, that stops at the stop of
\* iteration i - 1 and starts, for a concatenating motion, at the start of
\* the first iteration, for an expanding one at that of iteration i - 1.
C35_StopsAtFailure ==
    RangeMotion =>
        \A i \in 2..CountTyped :
            StoppedAt(i) =>
                /\ ~ ev.result.failed
                /\ ev.result.stop = NthResult(i - 1).stop
                /\ ev.result.start = IF ev.motion \in BracketObjects
                                     THEN NthResult(i - 1).start
                                     ELSE NthResult(1).start

\* What holds: the result is the range of iteration i - 1 as that iteration
\* returned it, for a concatenating motion too.
C35_ReturnsPreviousRange ==
    RangeMotion =>
        \A i \in 2..CountTyped :
            StoppedAt(i) =>
                /\ ~ ev.result.failed
                /\ ev.result.stop = NthResult(i - 1).stop
                /\ ev.result.start = NthResult(i - 1).start

\* 3a" on the first of two quoted strings: the third iteration fails and the
\* range is that of the second string alone.
C35_WitnessThirdFails ==
    /\ RangeMotion
    /\ ev.motion = "MoveADoubleQuotes"
    /\ CountTyped = 3
    /\ StoppedAt(3)
    /\ ev.result.start = NthResult(2).start
    /\ NthResult(2).start # NthResult(1).start

\* 2i( inside the outermost pair: the second iteration fails and the range
\* is that of the first.
C35_WitnessExpanding ==
    /\ RangeMotion
    /\ ev.motion \in BracketObjects
    /\ CountTyped = 2
    /\ StoppedAt(2)
    /\ ev.result.start = NthResult(1).start
    /\ ev.result.stop = NthResult(1).stop

----------------------------------------------------------------------------
(* Operators under a pending operator (Spec)                               *)

\* The keys of the action in progress with the key of the event, and the
\* state they are matched in.
KeysTyped == Append(ev.before.recordedState.actionKeys, ev.key)

TypedState == [ev.before EXCEPT !.recordedState.actionKeys = KeysTyped]

OperatorEntries == {i \in 1..Len(Catalog) : Catalog[i].kind = "operator"}

\* A key was typed with an operator pending.
KeyUnderOperator ==
    /\ KeyEvent
    /\ ev.key \notin EscKeys
    /\ operator(ev.before.recordedState) # ""

\* C36: while an operator is pending no operator matches the keys typed or
\* could come to match them, but for the pending operator in its doubled
\* form; and the command in progress never holds two different operators.
C36_OneOperatorPending ==
    /\ KeyUnderOperator =>
          \A i \in OperatorEntries :
              /\ ~ couldActionApply(Catalog[i], TypedState, KeysTyped)
              /\ doesActionApply(Catalog[i], TypedState, KeysTyped) =>
                    /\ Catalog[i].name = operator(ev.before.recordedState)
                    /\ doesRepeatedOperatorApply(Catalog[i], TypedState, KeysTyped)
                    /\ KeysTyped = <<Last(Catalog[i].keys)>>
    /\ \A i \in 1..Len(operators(vimState.recordedState)) :
          operators(vimState.recordedState)[i].name = operator(vimState.recordedState)

\* dd: the second d matches the delete operator in its doubled form.
C36_WitnessDoubled ==
    /\ KeyUnderOperator
    /\ operator(ev.before.recordedState) = "DeleteOperator"
    /\ ev.key = "d"
    /\ \E i \in OperatorEntries : doesActionApply(Catalog[i], TypedState, KeysTyped)
    /\ ev.repeat
    /\ ev.op = "DeleteOperator"

\* y typed after d: no operator matches, and no operator is left pending.
C36_WitnessOther ==
    /\ KeyUnderOperator
    /\ operator(ev.before.recordedState) = "DeleteOperator"
    /\ ev.key = "y"
    /\ KeysTyped = <<"y">>
    /\ getRelevantAction(KeysTyped, TypedState).name = "NoPossibleMatch"
    /\ operator(vimState.recordedState) = ""
    /\ vimState.document = ev.before.document

\* ---------------------------------------------------------------------------
\* The register writes of the change operators (SpecOp).

\* A change operator has run: ChangeOperator or ChangeOperatorSVisual on a
\* range, or ChangeOperator on the current line(s) (the doubled form).
ChangeRan == ev.kind \in {"operator", "cursorRun"} /\ ev.op \in ChangeClass

ChangeRepeated == ev.kind = "cursorRun" /\ ev.count > 0

\* The register mode in force when the change command yanks: line-wise for
\* the doubled form, otherwise the one of the state the command started in.
ChangeRegisterMode ==
    IF ChangeRepeated THEN LineWise ELSE effectiveRegisterMode(ev.before)

\* The range the change command operates on: the whole lines for the doubled
\* form, otherwise the range handed in.
ChangeStart == IF ChangeRepeated THEN getLineBegin(ev.start) ELSE ev.start

ChangeStop ==
    LET d == ev.before.document
    IN  IF ChangeRepeated
        THEN getLineEnd(d, getDownByCount(d, ev.start, Max(0, ev.count - 1)))
        ELSE ev.stop

\* The text a yank of the changed range reads from the document as it stood
\* before the deletion.
ChangeYankedText ==
    YankOperator_run([ev.before EXCEPT !.currentRegisterMode = ChangeRegisterMode],
                     ChangeStart, ChangeStop).register.text

\* C37: a change command writes the register exactly once, with the text
\* yanked before the deletion and in the register mode in force at that
\* moment (line-wise for the doubled form); its deletion writes no register,
\* and the register mode is derived from the current mode again when the
\* command has ended.
C37_ChangeWritesRegisterOnce ==
    ChangeRan =>
        /\ vimState.registerWrites = ev.before.registerWrites + 1
        /\ vimState.register.text = ChangeYankedText
        /\ vimState.register.registerMode = ChangeRegisterMode
        /\ vimState.currentRegisterMode = AscertainFromCurrentMode

\* The doubled form on the middle line of a document: the line is stored
\* line-wise and emptied.
C37_WitnessDoubled ==
    /\ ChangeRan
    /\ ChangeRepeated
    /\ ev.count = 1
    /\ ev.before.currentRegisterMode = AscertainFromCurrentMode
    /\ ev.start.line = 1
    /\ vimState.register = [text |-> ev.before.document[2], registerMode |-> LineWise]
    /\ ev.before.document[2] # <<>>
    /\ vimState.document # ev.before.document
    /\ vimState.registerWrites = 1

\* The visual s on a character-wise selection.
C37_WitnessSVisual ==
    /\ ChangeRan
    /\ ev.op = "ChangeOperatorSVisual"
    /\ ev.before.currentMode = Visual
    /\ ev.start # ev.stop
    /\ vimState.register.registerMode = CharacterWise
    /\ vimState.document # ev.before.document
    /\ vimState.registerWrites = 1

----------------------------------------------------------------------------
(* The overlay mode: how long it lasts and what it is entered with          *)
(* (SpecEasy)                                                               *)

\* The length of the longest name among the registered markers, 0 with none.
LongestMarkerName(easyMotion) ==
    LET lengths == {Len(easyMotion.markers[i].name) : i \in 1..Len(easyMotion.markers)}
    IN  IF lengths = {} THEN 0 ELSE CHOOSE n \in lengths : \A m \in lengths : m <= n

\* The keys typed in the overlay since it was entered.
OverlayKeysTyped == Len(vimState.easyMotion.accumulation)

\* C38: the overlay mode is left after at most (length of the longest marker
\* name + 1) keys: while it is active no more keys than the longest name has
\* were typed in it, and the key that ends it restores the mode stored on
\* entry.
C38_OverlayLeftInTime ==
    /\ vimState.currentMode = EasyMotionMode
          => OverlayKeysTyped <= LongestMarkerName(vimState.easyMotion)
    /\ (ev.kind = "overlay" /\ vimState.currentMode # EasyMotionMode)
          => /\ vimState.currentMode = ev.before.easyMotion.previousMode
             /\ OverlayKeysTyped <= LongestMarkerName(vimState.easyMotion) + 1

\* The overlay had no marker and the first key ended it: one key more than
\* the longest name has.
C38_WitnessOneMore ==
    /\ ev.kind = "overlay"
    /\ ev.before.easyMotion.markers = <<>>
    /\ OverlayKeysTyped = 1
    /\ ev.before.easyMotion.previousMode = Visual
    /\ vimState.currentMode = Visual

\* Two-key names: the overlay stayed after the first key and was left with
\* the second.
C38_WitnessSecondKey ==
    /\ ev.kind = "overlay"
    /\ LongestMarkerName(vimState.easyMotion) = 2
    /\ OverlayKeysTyped = 2
    /\ ev.before.currentMode = EasyMotionMode
    /\ vimState.currentMode = Normal

\* C39 as stated: whenever the overlay mode is active at least one marker is
\* registered.
C39_OverlayHasMarker ==
    vimState.currentMode = EasyMotionMode => vimState.easyMotion.markers # <<>>

\* What holds instead: the overlay is active only after a search with at
\* least one match, and it has no marker exactly when every match is under
\* the cursor.
C39_OverlayHasMatch ==
    (ev.kind = "trigger" /\ vimState.currentMode = EasyMotionMode)
        => /\ ev.matches >= 1
           /\ vimState.easyMotion.markers = <<>> => ev.matches = 1

\* The search found the text under the cursor only: the overlay is active
\* without a marker.
C39_WitnessNoMarker ==
    /\ ev.kind = "trigger"
    /\ ev.cmd = "Search"
    /\ ev.matches = 1
    /\ vimState.currentMode = EasyMotionMode
    /\ vimState.easyMotion.markers = <<>>

----------------------------------------------------------------------------
(* The reflow operator gq (ActionVisualReflowParagraph, part_000).  The     *)
(* text of the range is cut into chunks by comment style, the words of     *)
(* each chunk are laid out again within the text width, and one            *)
(* replaceText transformation is queued.  The documents hold plain text    *)
(* and comments of the one-character single-line styles.                   *)

\* configuration.textwidth, small enough for lines to wrap.
textwidth == 7

Blanks == {" ", NL}

RECURSIVE trimStart(_)
trimStart(s) == IF s # <<>> /\ s[1] \in Blanks THEN trimStart(Tail(s)) ELSE s

RECURSIVE trimEnd(_)
trimEnd(s) ==
    IF s # <<>> /\ Last(s) \in Blanks THEN trimEnd(SubSeq(s, 1, Len(s) - 1)) ELSE s

trim(s) == trimEnd(trimStart(s))

startsWith(s, prefix) ==
    Len(s) >= Len(prefix) /\ SubSeq(s, 1, Len(prefix)) = prefix

substr(s, from) == SubSeq(s, from + 1, Len(s))

\* Array(n + 1).join(' '): n spaces.
spaces(n) == [i \in 1..n |-> " "]

\* The starts of the single-line comment types a line of these documents can
\* begin with, in the order of CommentTypes; the empty start comes last.
CommentStarts == << <<"#">>, <<";">>, <<"*">>, <<>> >>

commentTypeOf(trimmedLine) ==
    CommentStarts[CHOOSE i \in 1..Len(CommentStarts) :
                      /\ startsWith(trimmedLine, CommentStarts[i])
                      /\ \A j \in 1..(i - 1) : ~ startsWith(trimmedLine, CommentStarts[j])]

\* s.match(/^\s+/): the length of the leading white space.
leadingBlanks(line) == Len(line) - Len(trimStart(line))

RECURSIVE indentationFrom(_, _)
indentationFrom(lines, i) ==
    IF i > Len(lines) THEN 0
    ELSE IF leadingBlanks(lines[i]) # Len(lines[i]) THEN leadingBlanks(lines[i])
    ELSE indentationFrom(lines, i + 1)

getIndentationLevel(s) == indentationFrom(SplitLines(s), 1)

\* The chunks to reflow: a line starts a chunk when its comment type differs
\* from the last chunk's, otherwise its content is added to that chunk.
RECURSIVE chunksFrom(_, _, _)
chunksFrom(lines, i, chunks) ==
    IF i > Len(lines) THEN chunks
    ELSE LET trimmedLine == trim(lines[i])
             start == commentTypeOf(trimmedLine)
             rest == substr(trimmedLine, Len(start))
         IN  IF chunks = <<>> \/ Last(chunks).start # start
             THEN chunksFrom(lines, i + 1,
                      Append(chunks, [start |-> start, content |-> trim(rest),
                                      indentLevelAfterComment |->
                                          Len(rest) - Len(trim(rest))]))
             ELSE chunksFrom(lines, i + 1,
                      [chunks EXCEPT ![Len(chunks)].content = @ \o <<NL>> \o trim(rest)])

\* line.split(/\s+/) without the empty words.
RECURSIVE splitWords(_)
splitWords(line) ==
    LET t == trimStart(line)
    IN  IF t = <<>> THEN <<>>
        ELSE LET n == CHOOSE k \in 1..Len(t) :
                          /\ \A j \in 1..k : t[j] \notin Blanks
                          /\ k = Len(t) \/ t[k + 1] \in Blanks
             IN  <<SubSeq(t, 1, n)>> \o splitWords(SubSeq(t, n + 1, Len(t)))

\* The words of one content line added to the lines laid out so far.
RECURSIVE addWords(_, _, _, _, _)
addWords(lines, words, i, curIndex, maximumLineLength) ==
    IF i > Len(words) THEN lines
    ELSE LET word == words[i]
             added ==
                 IF Len(Last(lines)) + Len(word) + 1 < maximumLineLength
                 THEN [lines EXCEPT ![Len(lines)] =
                          IF curIndex = 0 /\ i = 1 THEN @ \o word
                          ELSE @ \o <<" ">> \o word]
                 ELSE Append(lines, word)
         IN  addWords(added, words, i + 1, curIndex, maximumLineLength)

RECURSIVE layOut(_, _, _, _, _)
layOut(lines, contentLines, k, curIndex, maximumLineLength) ==
    IF k > Len(contentLines) THEN lines
    ELSE IF trim(contentLines[k]) = <<>>
    THEN layOut(lines \o << <<>>, <<>> >>, contentLines, k + 1, 0, maximumLineLength)
    ELSE layOut(addWords(lines, splitWords(contentLines[k]), 1, curIndex,
                         maximumLineLength),
                contentLines, k + 1, curIndex + 1, maximumLineLength)

\* One chunk of a single-line comment type laid out again.
reflowChunk(chunk, indent, maximumLineLength) ==
    LET laid == layOut(<< <<>> >>, SplitLines(trim(chunk.content)), 1, 0,
                       maximumLineLength)
        noFirst == IF Len(laid) > 1 /\ trim(laid[1]) = <<>> THEN Tail(laid) ELSE laid
        lines == IF Len(noFirst) > 1 /\ trim(Last(noFirst)) = <<>>
                 THEN SubSeq(noFirst, 1, Len(noFirst) - 1) ELSE noFirst
    IN  [i \in 1..Len(lines) |->
            indent \o chunk.start \o spaces(chunk.indentLevelAfterComment) \o lines[i]]

RECURSIVE reflowChunks(_, _, _, _)
reflowChunks(chunks, i, indent, maximumLineLength) ==
    IF i > Len(chunks) THEN <<>>
    ELSE reflowChunk(chunks[i], indent, maximumLineLength)
            \o reflowChunks(chunks, i + 1, indent, maximumLineLength)

reflowParagraph(s, indentLevel) ==
    LET maximumLineLength == textwidth - indentLevel - 2
        chunksToReflow == chunksFrom(SplitLines(s), 1, <<>>)
    IN  JoinLines(reflowChunks(chunksToReflow, 1, spaces(indentLevel), maximumLineLength))

\* run: start becomes the earlier position, and end the later of that new
\* start and end.
ActionVisualReflowParagraph_run(vs, start0, end0) ==
    LET start == EarlierOf(start0, end0)
        end == LaterOf(start, end0)
        textToReflow == getText(vs.document, start, end)
        indentLevel == getIndentationLevel(textToReflow)
    IN  setCurrentMode(
            pushTransformation(vs,
                [type |-> "replaceText",
                 text |-> reflowParagraph(textToReflow, indentLevel),
                 start |-> start, end |-> end, diff |-> DiffBOL]),
            Normal)

ReflowDocs ==
    { << <<"a", "a", " ", "b">>, <<"b", "b">> >>,
      << <<"#", " ", "a">>, <<"#", "b">> >>,
      << <<" ", "a">>, <<>>, <<"b">> >> }

\* A document and the two positions of an operator range, in either order.
InitReflow ==
    /\ \E d \in ReflowDocs, m \in {Normal, Visual, VisualLine} :
       \E a, b \in allPositions(d) :
          vimState = [document |-> d, currentMode |-> m,
                      cursorStartPosition |-> a, cursorStopPosition |-> b,
                      recordedState |-> [transformations |-> <<>>]]
    /\ ev = [kind |-> "none", before |-> vimState]
    /\ keysHandled = 0

\* gq runs on the two positions; the event also holds what the run on the
\* same positions in the other order queues.
Reflow ==
    /\ ev.kind = "none"
    /\ LET a == vimState.cursorStartPosition
           b == vimState.cursorStopPosition
       IN  /\ vimState' = ActionVisualReflowParagraph_run(vimState, a, b)
           /\ ev' = [kind |-> "reflow", before |-> vimState,
                     swapped |-> ActionVisualReflowParagraph_run(vimState, b, a)
                                    .recordedState.transformations]
    /\ UNCHANGED keysHandled

NextReflow == Reflow

SpecReflow == InitReflow /\ [][NextReflow]_vars

Reflowed == ev.kind = "reflow"

Queued == vimState.recordedState.transformations

\* C40 as stated: run(a, b) and run(b, a) queue the same replaceText
\* transformation, on the span between the earlier and the later position.
C40_SameInEitherOrder ==
    Reflowed
        => /\ Queued = ev.swapped
           /\ Queued[1].start = EarlierOf(ev.before.cursorStartPosition,
                                          ev.before.cursorStopPosition)
           /\ Queued[1].end = LaterOf(ev.before.cursorStartPosition,
                                      ev.before.cursorStopPosition)

\* What holds: one replaceText is queued; its start is the earlier position
\* and its end is the second position handed in, the later one only when the
\* positions came in order: handed the later position first, run works on
\* the empty span at the earlier one.
C40_SpanOfRun ==
    Reflowed
        => LET a == ev.before.cursorStartPosition
               b == ev.before.cursorStopPosition
           IN  /\ Len(Queued) = 1
               /\ Queued[1].type = "replaceText"
               /\ Queued[1].start = EarlierOf(a, b)
               /\ Queued[1].end = b
               /\ isBefore(b, a) => Queued[1].text = <<>>
               /\ ~ isBefore(b, a) =>
                      Queued[1].text =
                          reflowParagraph(getText(ev.before.document, a, b),
                              getIndentationLevel(getText(ev.before.document, a, b)))

\* The two comment lines handed in order are joined into one; handed the
\* other way round nothing is replaced.
C40_WitnessJoined ==
    /\ Reflowed
    /\ ev.before.document = << <<"#", " ", "a">>, <<"#", "b">> >>
    /\ ev.before.cursorStartPosition = Pos(0, 0)
    /\ ev.before.cursorStopPosition = Pos(1, 2)
    /\ Queued[1].text = <<"#", " ", "a", " ", "b">>
    /\ ev.swapped[1].text = <<>>
    /\ ev.swapped[1].end = Pos(0, 0)

\* A line longer than the text width allows is wrapped.
C40_WitnessWrapped ==
    /\ Reflowed
    /\ ev.before.document = << <<"a", "a", " ", "b">>, <<"b", "b">> >>
    /\ Queued[1].text = <<"a", "a", " ", "b", NL, "b", "b">>

====
